---- MODULE Spec2Model ----
(***************************************************************************)
(* Model of the video cache of pedrinwcore/Sam17:                          *)
(*   backend/config/VideoSSHManager.js  (download coordinator, disk cache, *)
(*                                       lister, /content middleware)      *)
(*   backend/routes/videos-ssh.js       (stream, info, rename, delete)     *)
(*   unnamed/part_000                   (videos route: upload, delete)     *)
(*                                                                         *)
(* Node runs one macrotask and all microtasks it queues without            *)
(* interleaving; every `await` of an I/O operation and every stream event  *)
(* is a suspension point.  One action of the model is one such atomic run. *)
(***************************************************************************)
EXTENDS Integers, Sequences, FiniteSets, TLC

\* ---------------------------------------------------------------- bounds
NumCalls == 2       \* stream requests issued in one behaviour of Spec
NumChunks == 1      \* data events of one complete remote file
MaxTicks == 2       \* a file's age is followed up to MaxTicks steps of TickMs
MaxSegs == 3        \* segments of a decoded path below the content root
MaxHdr == 4         \* characters of a Range header
MaxSize == 3        \* bytes of a served file
MaxPath == 5        \* characters of a remote path
MaxTok == 3         \* parts of the path of a /content request
MaxLines == 3       \* lines of the output of the remote scan
MaxName == 3        \* characters of the new name of a rename
NumUploads == 2     \* uploads that may be in progress at once
Espaco == 2         \* streamings.espaco, the quota of the folder in MB
MaxRows == 2        \* rows of playlists_videos held at once

\* ------------------------------------------------------ program constants
FreshnessMs == 60 * 60 * 1000     \* downloadVideoToTemp: age < 60 * 60 * 1000
MaxAgeMs == 60 * 60 * 1000        \* cleanupOldFiles: maxAge
TickMs == 60 * 60 * 1000          \* granularity of the model's clock

\* RaceSpec issues one request more than Spec.
Calls == 1..(NumCalls + 1)
VideoIds == {"vidA", "vidB"}
\* The identifier the requests of the coordinator specifications ask for.
OneId == {"vidA"}
Chunks == 1..NumChunks

\* An inode is named by the transfer (= the call) whose open created it.
NoIno == 0
Inos == Calls
NoTask == 0

VARIABLES
    dir,            \* tempDir: videoId -> inode linked under `${videoId}_${fileName}`
    ichunks,        \* inode -> set of chunks that hold data
    fage,           \* videoId -> Date.now() - mtime of the linked file
    downloadQueue,  \* this.downloadQueue: videoId -> promise (named by its transfer)
    pc,             \* call -> position of the request
    vid,            \* call -> req.params.videoId
    awaiting,       \* call -> promise the call is suspended on
    cached,         \* call -> downloadResult.cached
    status,         \* call -> HTTP status sent (0: none yet)
    rdIno,          \* call -> inode its read stream reads
    during,         \* call -> transfers in flight when the call arrived (history)
    prior,          \* call -> transfers that had failed when it arrived (history)
    tr,             \* transfer -> phase of downloadPromise
    fd,             \* transfer -> inode its write stream has open
    pos,            \* transfer -> chunks piped so far
    unl,            \* transfer -> fs.unlink(localPath) issued and not yet done
    sweepPc, sweepFiles, sweepLate, sweepCur,  \* cleanupOldFiles
    sweepQuiet,     \* passes begun (up to 2) since a file was last created or
                    \* rewritten or time last passed (history)
    clearPc, clearFiles, clearCount,           \* clearCache
    clearSeen,      \* the inodes linked when clearCache read the directory (history)
    clearDone,      \* the unlinks the running clearCache has done (history)
    aPc,            \* position of the request in the ownership check of the route
    aLogin,         \* req.user.email.split('@')[0]
    aPath,          \* the decoded remotePath, as its segments
    aStatus,        \* HTTP status sent (0: none yet)
    aIO,            \* catalog queries, remote commands, transfers and cache reads made
    rPc,            \* position of the request in the serving part of the route
    rHdr,           \* req.headers.range, as its characters (<<>>: no header)
    rSize,          \* stats.size of the cache file
    rStatus,        \* HTTP status of the response
    rLen,           \* Content-Length header
    rRange,         \* Content-Range header: <<start, end, size>>, <<>> when not set
    rAccept,        \* Accept-Ranges header
    rBody,          \* the offsets of the file's bytes sent as the body
    dPc,            \* position of the DELETE request
    dLogin,         \* its req.user.email.split('@')[0]
    dVid,           \* its req.params.videoId
    dStatus,        \* HTTP status sent (0: none yet)
    remote,         \* videoId -> the file of its path is on the media server
    catalog,        \* videoId -> playlists_videos has a row for its path
    cPc,            \* position of an identifier between the lister and a route
    cPath,          \* fullPath of a listed file, as the code points of its characters
    cId,            \* the id of its record, as base64 digits (values 0..63, padding)
    cBack,          \* the remotePath a route decodes from the id
    gPc,            \* position of the /content request
    gPath,          \* its requestPath, as a sequence of parts
    gProd,          \* NODE_ENV is 'production'
    gRange,         \* its Range header ("" when absent)
    gReqs,          \* the upstream requests made for it, in order
    gAnswers,       \* the upstream status of each answered request
    gStatus,        \* HTTP status sent (0: none yet)
    gCache,         \* the Cache-Control header the middleware set
    gType,          \* the Content-Type header the middleware set
    gBody,          \* the JSON body of an error response
    gSent,          \* the responses begun on res, in order: "pipe" or "json"
    lPc,            \* position of listVideosFromServer
    lOut,           \* how the scan ended, with the kinds of the lines of its output
    lIdx,           \* the line the loop is at (0: none)
    lProbes,        \* line -> the outcome of its duration probe ("" when not probed)
    lVideos,        \* videos, each record with its line and its duration
    lRaised,        \* the call ended with an exception
    lRet,           \* the list the call returned
    iPc,            \* position of the GET /info/:videoId request
    iLogin,         \* the login of its caller
    iPath,          \* its decoded remotePath: folder, name, extension
    iLs,            \* how the ls command of getVideoInfo ended
    iFf,            \* how the ffprobe command of getVideoInfo ended
    iStatus,        \* HTTP status sent (0: none yet)
    iInfo,          \* video_info of the response
    nPc,            \* position of the PUT /:videoId/rename request
    nPath,          \* its decoded remotePath below the content root, split at '/'
    nName,          \* its novo_nome, as characters
    nStatus,        \* HTTP status sent (0: none yet)
    nNew,           \* newRemotePath below the content root, as characters
    nFile,          \* where the remote file is: its path, split at '/'
    nRow,           \* path_video of the catalog row of the file (<<>>: no row)
    nUpd,           \* how the UPDATE of the catalog ended ("": not sent)
    qUsed,          \* streamings.espaco_usado of the folder, in MB
    qRows,          \* playlists_videos: the pairs <<codigo, tamanho_arquivo>>
    uPc,            \* upload -> position of its POST /upload request
    uTam,           \* upload -> `tamanho`
    uStatus,        \* upload -> HTTP status sent (0: none yet)
    xPc,            \* position of the DELETE /:id request
    xRow,           \* the row it read
    xSize,          \* its fileSize
    xStatus         \* HTTP status sent (0: none yet)

fsVars == <<dir, ichunks, fage>>
callVars == <<pc, vid, awaiting, cached, status, rdIno, during, prior>>
trVars == <<tr, fd, pos, unl>>
coordVars == <<fsVars, downloadQueue, callVars, trVars>>
sweepVars == <<sweepPc, sweepFiles, sweepLate, sweepCur, sweepQuiet>>
clearVars == <<clearPc, clearFiles, clearCount, clearSeen, clearDone>>
cacheVars == <<coordVars, sweepVars, clearVars>>
authVars == <<aPc, aLogin, aPath, aStatus, aIO>>
\* The variables the video cache does not touch.
rangeVars == <<rPc, rHdr, rSize, rStatus, rLen, rRange, rAccept, rBody>>
deleteVars == <<dPc, dLogin, dVid, dStatus, remote, catalog>>
codecVars == <<cPc, cPath, cId, cBack>>
proxyVars == <<gPc, gPath, gProd, gRange, gReqs, gAnswers, gStatus, gCache, gType, gBody, gSent>>
listVars == <<lPc, lOut, lIdx, lProbes, lVideos, lRaised, lRet>>
infoVars == <<iPc, iLogin, iPath, iLs, iFf, iStatus, iInfo>>
renameVars == <<nPc, nPath, nName, nStatus, nNew, nFile, nRow, nUpd>>
quotaVars == <<qUsed, qRows, uPc, uTam, uStatus, xPc, xRow, xSize, xStatus>>
sideVars == <<authVars, rangeVars, deleteVars, codecVars, proxyVars, listVars, infoVars, renameVars, quotaVars>>
\* What the ownership check, and what the serving of a file, leaves alone.
authRest == <<cacheVars, rangeVars, deleteVars, codecVars, proxyVars, listVars, infoVars, renameVars, quotaVars>>
rangeRest == <<cacheVars, authVars, deleteVars, codecVars, proxyVars, listVars, infoVars, renameVars, quotaVars>>
deleteRest == <<authVars, rangeVars, codecVars, proxyVars, listVars, infoVars, renameVars, quotaVars>>
codecRest == <<cacheVars, authVars, rangeVars, deleteVars, proxyVars, listVars, infoVars, renameVars, quotaVars>>
proxyRest == <<cacheVars, authVars, rangeVars, deleteVars, codecVars, listVars, infoVars, renameVars, quotaVars>>
listRest == <<cacheVars, authVars, rangeVars, deleteVars, codecVars, proxyVars, infoVars, renameVars, quotaVars>>
infoRest == <<cacheVars, authVars, rangeVars, deleteVars, codecVars, proxyVars, listVars, renameVars, quotaVars>>
renameRest == <<cacheVars, authVars, rangeVars, deleteVars, codecVars, proxyVars, listVars, infoVars, quotaVars>>
quotaRest == <<cacheVars, authVars, rangeVars, deleteVars, codecVars, proxyVars, listVars, infoVars, renameVars>>
vars == <<cacheVars, sideVars>>

\* A transfer whose promise is neither resolved nor rejected.
InFlight(t) == tr[t] \in {"conn", "sftp", "pipe", "noent", "stalled"}

\* The transfers in flight for a videoId.
InFlightFor(v) == {t \in Calls : InFlight(t) /\ vid[t] = v}

\* The inode is the open write target of an unsettled transfer.
BeingWritten(i) == \E t \in Calls : InFlight(t) /\ fd[t] = i

\* The inode holds the whole remote file and nobody is writing it.
Complete(i) == ichunks[i] = Chunks /\ ~BeingWritten(i)

\* IsFresh with the comparison `<=` in place of `<`.
IsFreshInclusive(v) == dir[v] # NoIno /\ fage[v] <= FreshnessMs

\* `if (age < 60 * 60 * 1000)` on the stat of localPath
IsFresh(v) == dir[v] # NoIno /\ fage[v] < FreshnessMs

\* The sweep test with a maximum age of two hours.
SweepEligibleLater(age) == age > 2 * MaxAgeMs

\* `if (now - stats.mtime.getTime() > maxAge)` of cleanupOldFiles
SweepEligible(age) == age > MaxAgeMs

\* HasTask without the look-up: the queue is never consulted.
HasTaskNever(v) == FALSE

\* `this.downloadQueue.has(videoId)`
HasTask(v) == downloadQueue[v] # NoTask

\* `this.downloadQueue.delete(videoId)`: removes the entry of the key,
\* whichever promise it holds.
QueueDelete(v) == [downloadQueue EXCEPT ![v] = NoTask]

\* The calls suspended on the promise of transfer t: its initiator
\* (`await downloadPromise`) and the calls that returned it from the queue.
Awaiters(t) == {c \in Calls : pc[c] \in {"own", "wait"} /\ awaiting[c] = t}

\* The file system drops the data of an inode that is neither linked nor
\* open by a write stream or a read stream.
Reclaim(ich, d, f, r) ==
    [i \in Inos |->
        IF \/ \E v \in VideoIds : d[v] = i
           \/ \E t \in Calls : f[t] = i
           \/ \E c \in Calls : r[c] = i
        THEN ich[i] ELSE {}]

\* A rejected call that goes back to the stat of the local file.
AfterRejectRetry == "stat"

\* Where a call is after the rejection of the promise it awaits: the catch
\* of downloadVideoToTemp rethrows, the fallback of getVideoStream throws,
\* and the route answers.
AfterReject == "done"

\* An unlink that leaves the entry where it is.
UnlinkedNot(v) == dir

\* fs.unlink of the path of v: the entry goes, the inode stays while open.
Unlinked(v) == [dir EXCEPT ![v] = NoIno]

\* A write stream writes through its descriptor: the mtime of the path
\* changes only while the inode is still linked there.
Touched(t) == [v \in VideoIds |-> IF dir[v] = fd[t] THEN 0 ELSE fage[v]]

\* The outcome of a scan that was rejected (and of none).
NoScan == [ok |-> FALSE, noVideos |-> FALSE, lines |-> <<>>]

\* videoInfo of getVideoInfo; null when the function returned null.
VideoInfo(name, size, duration, width, height, bitrate, codec, format) ==
    [null |-> FALSE, name |-> name, size |-> size, duration |-> duration,
     width |-> width, height |-> height, bitrate |-> bitrate, codec |-> codec,
     format |-> format]
NullInfo == [VideoInfo(<<>>, 0, 0, 0, 0, 0, "", "") EXCEPT !.null = TRUE]

\* A URL of the media server: host, port, whether user:password@ precedes the host, whether the
\* path begins with /content, and the request path.
Url(host, port, cred, content, p) ==
    [host |-> host, port |-> port, cred |-> cred, content |-> content, path |-> p]
NoUrl == Url("", 0, FALSE, FALSE, <<>>)

\* The JSON bodies of the error responses of the /content middleware.
Body(error, p, url, st, details) ==
    [error |-> error, requestPath |-> p, wowzaUrl |-> url, status |-> st,
     details |-> details]
NoBody == Body("", <<>>, NoUrl, 0, [text |-> "", url |-> NoUrl])

Init ==
    /\ dir = [v \in VideoIds |-> NoIno]
    /\ ichunks = [i \in Inos |-> {}]
    /\ fage = [v \in VideoIds |-> 0]
    /\ downloadQueue = [v \in VideoIds |-> NoTask]
    /\ pc = [c \in Calls |-> "idle"]
    /\ vid = [c \in Calls |-> CHOOSE v \in VideoIds : TRUE]
    /\ awaiting = [c \in Calls |-> NoTask]
    /\ cached = [c \in Calls |-> FALSE]
    /\ status = [c \in Calls |-> 0]
    /\ rdIno = [c \in Calls |-> NoIno]
    /\ during = [c \in Calls |-> {}]
    /\ prior = [c \in Calls |-> {}]
    /\ tr = [t \in Calls |-> "none"]
    /\ fd = [t \in Calls |-> NoIno]
    /\ pos = [t \in Calls |-> 0]
    /\ unl = [t \in Calls |-> FALSE]
    /\ sweepPc = "idle" /\ sweepFiles = {} /\ sweepLate = 0 /\ sweepQuiet = 0
    /\ sweepCur = CHOOSE v \in VideoIds : TRUE
    /\ clearPc = "idle" /\ clearFiles = {} /\ clearCount = 0
    /\ clearSeen = {} /\ clearDone = 0
    /\ aPc = "idle" /\ aLogin = "alice" /\ aPath = <<>> /\ aStatus = 0 /\ aIO = 0
    /\ rPc = "idle" /\ rHdr = <<>> /\ rSize = 0 /\ rStatus = 0 /\ rLen = 0
    /\ rRange = <<>> /\ rAccept = "" /\ rBody = <<>>
    /\ dPc = "idle" /\ dLogin = "alice" /\ dStatus = 0
    /\ dVid = CHOOSE v \in VideoIds : TRUE
    /\ remote = [v \in VideoIds |-> TRUE]
    /\ catalog = [v \in VideoIds |-> TRUE]
    /\ cPc = "idle" /\ cPath = <<>> /\ cId = <<>> /\ cBack = <<>>
    /\ gPc = "idle" /\ gPath = <<>> /\ gProd = FALSE /\ gRange = ""
    /\ gReqs = <<>> /\ gAnswers = <<>> /\ gStatus = 0 /\ gCache = "" /\ gType = ""
    /\ gBody = NoBody /\ gSent = <<>>
    /\ lPc = "idle" /\ lOut = NoScan /\ lIdx = 0 /\ lProbes = <<>> /\ lVideos = <<>>
    /\ lRaised = FALSE /\ lRet = <<>>
    /\ iPc = "idle" /\ iLogin = "" /\ iPath = <<>> /\ iLs = "" /\ iFf = "" /\ iStatus = 0
    /\ iInfo = NullInfo
    /\ nPc = "idle" /\ nPath = <<>> /\ nName = <<>> /\ nStatus = 0 /\ nNew = <<>>
    /\ nFile = <<>> /\ nRow = <<>> /\ nUpd = ""
    /\ qUsed = 0 /\ qRows = {}
    /\ uPc = [u \in 1..NumUploads |-> "idle"] /\ uTam = [u \in 1..NumUploads |-> 0]
    /\ uStatus = [u \in 1..NumUploads |-> 0]
    /\ xPc = "idle" /\ xRow = <<0, 0>> /\ xSize = 0 /\ xStatus = 0

\* ------------------------------------------------- downloadVideoToTemp
\* Entry of GET /stream/:videoId for an owner, up to the first suspension of
\* downloadVideoToTemp: the queue check, then `await fs.stat(localPath)`.
\* (Calls are interchangeable: they arrive in the order of their numbers.)
Acquire(c, v) ==
    /\ pc[c] = "idle"
    /\ \A d \in Calls : d < c => pc[d] # "idle"
    /\ vid' = [vid EXCEPT ![c] = v]
    /\ during' = [during EXCEPT ![c] = InFlightFor(v)]
    /\ prior' = [prior EXCEPT ![c] = {t \in Calls : tr[t] = "failed" /\ vid[t] = v}]
    /\ IF HasTask(v)
          THEN /\ pc' = [pc EXCEPT ![c] = "wait"]
               /\ awaiting' = [awaiting EXCEPT ![c] = downloadQueue[v]]
          ELSE /\ pc' = [pc EXCEPT ![c] = "stat"]
               /\ UNCHANGED awaiting
    /\ UNCHANGED <<fsVars, downloadQueue, cached, status, rdIno, trVars,
                   sweepVars, clearVars, sideVars>>

\* fs.stat(localPath) returns: a fresh file is a cache hit; otherwise the
\* promise is created (its executor runs up to `await getConnection`), it is
\* put in the queue and the call suspends on it.
StatResult(c) ==
    /\ pc[c] = "stat"
    /\ IF IsFresh(vid[c])
          THEN /\ pc' = [pc EXCEPT ![c] = "local"]
               /\ cached' = [cached EXCEPT ![c] = TRUE]
               /\ UNCHANGED <<tr, downloadQueue, awaiting>>
          ELSE /\ tr' = [tr EXCEPT ![c] = "conn"]
               /\ downloadQueue' = [downloadQueue EXCEPT ![vid[c]] = c]
               /\ awaiting' = [awaiting EXCEPT ![c] = c]
               /\ pc' = [pc EXCEPT ![c] = "own"]
               /\ UNCHANGED cached
    /\ UNCHANGED <<fsVars, vid, status, rdIno, during, prior, fd, pos, unl,
                   sweepVars, clearVars, sideVars>>

\* The promise of transfer t is resolved: the initiator deletes the queue
\* entry and returns the result; the calls that returned the same promise
\* get the same result.  All of them go on in the route to
\* `await fs.stat(localPath)`.  The write stream has closed.
Resolved(t) ==
    /\ tr' = [tr EXCEPT ![t] = "done"]
    /\ fd' = [fd EXCEPT ![t] = NoIno]
    /\ pos' = [pos EXCEPT ![t] = 0]
    /\ ichunks' = Reclaim(ichunks, dir, fd', rdIno)
    /\ downloadQueue' = QueueDelete(vid[t])
    /\ pc' = [c \in Calls |-> IF c \in Awaiters(t) THEN "local" ELSE pc[c]]
    /\ awaiting' = [c \in Calls |-> IF c \in Awaiters(t) THEN NoTask ELSE awaiting[c]]
    /\ UNCHANGED <<dir, fage, vid, cached, status, rdIno, during, prior, unl,
                   sweepVars, clearVars, sideVars>>

\* The promise of transfer t is rejected: the initiator's catch deletes the
\* queue entry and rethrows; the calls that returned the same promise are
\* rejected with the same error.  getVideoStream's fallback
\* (createSSHVideoStream) always throws, so the route answers 500.  The
\* write stream is written no more; the locals of an answered request are
\* dropped.
Rejected(t) ==
    /\ tr' = [tr EXCEPT ![t] = "failed"]
    /\ fd' = [fd EXCEPT ![t] = NoIno]
    /\ pos' = [pos EXCEPT ![t] = 0]
    /\ ichunks' = Reclaim(ichunks, dir, fd', rdIno)
    /\ downloadQueue' = QueueDelete(vid[t])
    /\ pc' = [c \in Calls |-> IF c \in Awaiters(t) THEN AfterReject ELSE pc[c]]
    /\ status' = [c \in Calls |-> IF c \in Awaiters(t) THEN 500 ELSE status[c]]
    /\ awaiting' = [c \in Calls |-> IF c \in Awaiters(t) THEN NoTask ELSE awaiting[c]]
    /\ during' = [c \in Calls |-> IF c \in Awaiters(t) THEN {} ELSE during[c]]
    /\ prior' = [c \in Calls |-> IF c \in Awaiters(t) THEN {} ELSE prior[c]]
    /\ UNCHANGED <<dir, fage, vid, cached, rdIno, sweepVars, clearVars, sideVars>>

\* `await SSHManager.getConnection(serverId)` returns; conn.sftp is called.
ConnOk(t) ==
    /\ tr[t] = "conn"
    /\ tr' = [tr EXCEPT ![t] = "sftp"]
    /\ UNCHANGED <<fsVars, downloadQueue, callVars, fd, pos, unl,
                   sweepVars, clearVars, sideVars>>

\* getConnection throws: reject(error) from the executor's catch.
ConnFail(t) ==
    /\ tr[t] = "conn"
    /\ Rejected(t)
    /\ UNCHANGED unl

\* The sftp callback without error: the read stream and the write stream are
\* created and piped.  createWriteStream opens localPath with flag 'w': it
\* creates the file, or truncates the file that is there.  A read stream on
\* a remote path that is gone will emit 'error' and nothing else.
SftpOk(t) ==
    /\ tr[t] = "sftp"
    /\ LET v == vid[t]
           i == IF dir[v] = NoIno THEN t ELSE dir[v]
       IN /\ dir' = [dir EXCEPT ![v] = i]
          /\ ichunks' = [ichunks EXCEPT ![i] = {}]
          /\ fage' = [fage EXCEPT ![v] = 0]
          /\ fd' = [fd EXCEPT ![t] = i]
    /\ tr' = [tr EXCEPT ![t] = IF remote[vid[t]] THEN "pipe" ELSE "noent"]
    /\ sweepQuiet' = 0
    /\ UNCHANGED <<downloadQueue, callVars, pos, unl,
                   sweepPc, sweepFiles, sweepLate, sweepCur, clearVars, sideVars>>

\* The sftp callback with err: reject(err).
SftpFail(t) ==
    /\ tr[t] = "sftp"
    /\ Rejected(t)
    /\ UNCHANGED unl

\* One chunk goes from the read stream to the write stream, which writes it
\* at its own offset of the inode it has open.
Data(t) ==
    /\ tr[t] = "pipe"
    /\ pos[t] < NumChunks
    /\ pos' = [pos EXCEPT ![t] = @ + 1]
    /\ ichunks' = [ichunks EXCEPT ![fd[t]] = @ \cup {pos[t] + 1}]
    /\ fage' = Touched(t)
    /\ sweepQuiet' = 0
    /\ UNCHANGED <<dir, downloadQueue, callVars, tr, fd, unl,
                   sweepPc, sweepFiles, sweepLate, sweepCur, clearVars, sideVars>>

\* writeStream 'finish' after the last chunk: resolve.
Finish(t) ==
    /\ tr[t] = "pipe"
    /\ pos[t] = NumChunks
    /\ Resolved(t)

\* readStream 'error': fs.unlink(localPath) is issued and not awaited, then
\* reject(error).
ReadError(t) ==
    /\ tr[t] \in {"pipe", "noent"}
    /\ unl' = [unl EXCEPT ![t] = TRUE]
    /\ Rejected(t)

\* writeStream 'error': the same two statements.
WriteError(t) ==
    /\ tr[t] = "pipe"
    /\ unl' = [unl EXCEPT ![t] = TRUE]
    /\ Rejected(t)

\* The unlink issued by an error handler is carried out: it removes whatever
\* is linked at localPath now; ENOENT is swallowed by `.catch(() => {})`.
UnlinkDone(t) ==
    /\ unl[t]
    /\ unl' = [unl EXCEPT ![t] = FALSE]
    /\ dir' = Unlinked(vid[t])
    /\ fage' = [fage EXCEPT ![vid[t]] = 0]
    /\ ichunks' = Reclaim(ichunks, dir', fd, rdIno)
    /\ UNCHANGED <<downloadQueue, callVars, tr, fd, pos, sweepVars, clearVars, sideVars>>

\* The remote side stops sending without closing or failing the channel.
\* downloadVideoToTemp arms no timer, so no event of the transfer follows.
Stall(t) ==
    /\ tr[t] = "pipe"
    /\ tr' = [tr EXCEPT ![t] = "stalled"]
    /\ UNCHANGED <<fsVars, downloadQueue, callVars, fd, pos, unl,
                   sweepVars, clearVars, sideVars>>

\* ------------------------------------------------ GET /stream/:videoId
\* `await fs.stat(localPath)` of the route: a missing file is answered 500
\* ('Erro ao acessar arquivo local'), otherwise the headers are set and a
\* read stream on localPath is piped to the response.
ServeOpen(c) ==
    /\ pc[c] = "local"
    /\ LET i == dir[vid[c]] IN
       IF i = NoIno
          THEN /\ pc' = [pc EXCEPT ![c] = "done"]
               /\ status' = [status EXCEPT ![c] = 500]
               /\ cached' = [cached EXCEPT ![c] = FALSE]
               /\ during' = [during EXCEPT ![c] = {}]
               /\ prior' = [prior EXCEPT ![c] = {}]
               /\ UNCHANGED rdIno
          ELSE /\ pc' = [pc EXCEPT ![c] = "piping"]
               /\ status' = [status EXCEPT ![c] = 200]
               /\ rdIno' = [rdIno EXCEPT ![c] = i]
               /\ UNCHANGED <<cached, during, prior>>
    /\ UNCHANGED <<fsVars, downloadQueue, vid, awaiting, trVars,
                   sweepVars, clearVars, sideVars>>

\* The read stream reaches the end of the file and the response ends.
ServeEnd(c) ==
    /\ pc[c] = "piping"
    /\ pc' = [pc EXCEPT ![c] = "done"]
    /\ cached' = [cached EXCEPT ![c] = FALSE]
    /\ during' = [during EXCEPT ![c] = {}]
    /\ prior' = [prior EXCEPT ![c] = {}]
    /\ rdIno' = [rdIno EXCEPT ![c] = NoIno]
    /\ ichunks' = Reclaim(ichunks, dir, fd, rdIno')
    /\ UNCHANGED <<dir, fage, downloadQueue, vid, awaiting, status, trVars,
                   sweepVars, clearVars, sideVars>>

\* ------------------------------------------------------------- clock
\* TickMs pass: every file of the cache is TickMs older, and so is the
\* `now` a running sweep has read.  (Ages stop at MaxTicks * TickMs; while a
\* pass compares them with its `now`, time passes only when no age has
\* stopped.)
Tick ==
    /\ \E v \in VideoIds : dir[v] # NoIno /\ fage[v] < MaxTicks * TickMs
    /\ sweepPc # "idle" =>
          \A v \in VideoIds : dir[v] # NoIno => fage[v] < MaxTicks * TickMs
    /\ fage' = [v \in VideoIds |->
                  IF dir[v] # NoIno /\ fage[v] < MaxTicks * TickMs
                     THEN fage[v] + TickMs ELSE fage[v]]
    /\ sweepLate' = IF sweepPc = "idle" THEN 0 ELSE sweepLate + TickMs
    /\ sweepQuiet' = 0
    /\ UNCHANGED <<dir, ichunks, downloadQueue, callVars, trVars,
                   sweepPc, sweepFiles, sweepCur, clearVars, sideVars>>

\* ---------------------------------------------------- cleanupOldFiles
\* readdir returns and `now` is read.
SweepStart ==
    /\ sweepPc = "idle"
    /\ sweepFiles' = {v \in VideoIds : dir[v] # NoIno}
    /\ sweepLate' = 0
    /\ sweepPc' = "loop"
    /\ sweepQuiet' = IF sweepQuiet < 2 THEN sweepQuiet + 1 ELSE sweepQuiet
    /\ UNCHANGED <<coordVars, sweepCur, clearVars, sideVars>>

\* One `await fs.stat(filePath)` of the loop returns (or the loop ends).  A
\* file that is gone makes stat throw, which ends the pass in the catch.
\* The age is taken from the `now` read before the loop.
SweepStat ==
    /\ sweepPc = "loop"
    /\ IF sweepFiles = {}
          THEN /\ sweepPc' = "idle"
               /\ sweepLate' = 0
               /\ UNCHANGED <<sweepFiles, sweepCur, sweepQuiet>>
          ELSE \E f \in sweepFiles :
                 IF dir[f] = NoIno
                    THEN /\ sweepPc' = "idle"
                         /\ sweepFiles' = {}
                         /\ sweepLate' = 0
                         /\ UNCHANGED <<sweepCur, sweepQuiet>>
                    ELSE IF SweepEligible(fage[f] - sweepLate)
                            THEN /\ sweepPc' = "unlink"
                                 /\ sweepCur' = f
                                 /\ sweepFiles' = sweepFiles \ {f}
                                 /\ UNCHANGED <<sweepLate, sweepQuiet>>
                            ELSE /\ sweepFiles' = sweepFiles \ {f}
                                 /\ UNCHANGED <<sweepPc, sweepCur, sweepLate, sweepQuiet>>
    /\ UNCHANGED <<coordVars, clearVars, sideVars>>

\* `await fs.unlink(filePath)` of the loop returns; ENOENT ends the pass.
SweepUnlink ==
    /\ sweepPc = "unlink"
    /\ IF dir[sweepCur] = NoIno
          THEN /\ sweepPc' = "idle"
               /\ sweepFiles' = {}
               /\ sweepLate' = 0
               /\ UNCHANGED <<fsVars, sweepQuiet>>
          ELSE /\ sweepPc' = "loop"
               /\ dir' = Unlinked(sweepCur)
               /\ fage' = [fage EXCEPT ![sweepCur] = 0]
               /\ ichunks' = Reclaim(ichunks, dir', fd, rdIno)
               /\ UNCHANGED <<sweepFiles, sweepLate, sweepQuiet>>
    /\ UNCHANGED <<downloadQueue, callVars, trVars, sweepCur, clearVars, sideVars>>

\* --------------------------------------------------------- clearCache
\* readdir returns.
ClearStart ==
    /\ clearPc = "idle"
    /\ clearFiles' = {v \in VideoIds : dir[v] # NoIno}
    /\ clearCount' = Cardinality({v \in VideoIds : dir[v] # NoIno})
    /\ clearPc' = "loop"
    /\ clearSeen' = {dir[v] : v \in {w \in VideoIds : dir[w] # NoIno}}
    /\ clearDone' = 0
    /\ UNCHANGED <<coordVars, sweepVars, sideVars>>

\* One `await fs.unlink(filePath)` returns (or the loop ends and
\* removedFiles = files.length is returned).  ENOENT is rethrown.
ClearUnlink ==
    /\ clearPc = "loop"
    /\ IF clearFiles = {}
          THEN /\ clearPc' = "idle"
               /\ clearCount' = 0
               /\ clearSeen' = {} /\ clearDone' = 0
               /\ UNCHANGED <<fsVars, clearFiles>>
          ELSE \E f \in clearFiles :
                 IF dir[f] = NoIno
                    THEN /\ clearPc' = "idle"
                         /\ clearFiles' = {}
                         /\ clearCount' = 0
                         /\ clearSeen' = {} /\ clearDone' = 0
                         /\ UNCHANGED fsVars
                    ELSE /\ dir' = Unlinked(f)
                         /\ fage' = [fage EXCEPT ![f] = 0]
                         /\ ichunks' = Reclaim(ichunks, dir', fd, rdIno)
                         /\ clearFiles' = clearFiles \ {f}
                         /\ clearDone' = clearDone + 1
                         /\ UNCHANGED <<clearPc, clearCount, clearSeen>>
    /\ UNCHANGED <<downloadQueue, callVars, trVars, sweepVars, sideVars>>

\* ------------------------------- GET /stream/:videoId: ownership check
\* A decoded remotePath is '/' followed by its segments joined by '/'.  The
\* segments a request may send below the content root:
Names == {"alice", "bob", "clip.mp4"}

Logins == {"alice", "bob"}

RootSegs == <<"usr", "local", "WowzaStreamingEngine", "content">>

\* The paths below the content root of at most MaxSegs segments.
Paths == UNION {[1..n -> Names] : n \in 1..MaxSegs}

\* `remotePath.includes(`/${userLogin}/`)`: the login is a segment of the
\* path that is followed by a '/', that is any segment but the last one.
PathIncludes(p, login) ==
    LET full == RootSegs \o p
    IN \E k \in 1..(Len(full) - 1) : full[k] = login

\* The owner segment of a path: the component directly under the content
\* root (listVideosFromServer builds every path as content/<login>/...).
OwnerOf(p) == p[1]

\* The route up to the check: 403 for a path without '/<login>/'.
StreamRequest(login, p) ==
    /\ aPc = "idle"
    /\ aLogin' = login
    /\ aPath' = p
    /\ aIO' = 0
    /\ IF ~PathIncludes(p, login)
          THEN aPc' = "done" /\ aStatus' = 403
          ELSE aPc' = "db" /\ aStatus' = 0
    /\ UNCHANGED authRest

\* `await db.execute(...)` returns: the catalog was queried;
\* getVideoStream is called.
StreamDb ==
    /\ aPc = "db"
    /\ aIO' = aIO + 1
    /\ aPc' = "stream"
    /\ UNCHANGED <<aLogin, aPath, aStatus, authRest>>

\* getVideoStream returns (from the cache or after a transfer) or throws,
\* and the route answers.
StreamAnswer(st) ==
    /\ aPc = "stream"
    /\ aIO' = aIO + 1
    /\ aStatus' = st
    /\ aPc' = "done"
    /\ UNCHANGED <<aLogin, aPath, authRest>>

\* The next request.
StreamNext ==
    /\ aPc = "done"
    /\ aPc' = "idle"
    /\ aStatus' = 0
    /\ aIO' = 0
    /\ UNCHANGED <<aLogin, aPath, authRest>>

\* ------------------------------------------------- DELETE /:videoId
\* The decoded path of each identifier, as its segments below the content
\* root: both are files of alice, one of them in a folder named bob.
PathOf(v) == IF v = "vidA" THEN <<"alice", "clip.mp4">> ELSE <<"alice", "bob", "clip.mp4">>

\* The route up to the check: 403 for a path without '/<login>/'.
DeleteRequest(login, v) ==
    /\ dPc = "idle"
    /\ dLogin' = login
    /\ dVid' = v
    /\ IF ~PathIncludes(PathOf(v), login)
          THEN dPc' = "done" /\ dStatus' = 403
          ELSE dPc' = "db" /\ dStatus' = 0
    /\ UNCHANGED <<remote, catalog, cacheVars, deleteRest>>

\* `await db.execute(...)` (the server of the user) returns, then
\* `await SSHManager.getFileInfo` returns or throws (500).
DeleteDb ==
    /\ dPc = "db"
    /\ dPc' = "info"
    /\ UNCHANGED <<dLogin, dVid, dStatus, remote, catalog, cacheVars, deleteRest>>

DeleteInfo ==
    /\ dPc = "info"
    /\ \/ dPc' = "remote" /\ UNCHANGED dStatus
       \/ dPc' = "done" /\ dStatus' = 500
    /\ UNCHANGED <<dLogin, dVid, remote, catalog, cacheVars, deleteRest>>

\* deleteVideoFromServer: `await SSHManager.deleteFile` returns (the remote
\* file is gone) or throws (rethrown, 500).
DeleteRemote ==
    /\ dPc = "remote"
    /\ \/ dPc' = "local" /\ remote' = [remote EXCEPT ![dVid] = FALSE] /\ UNCHANGED dStatus
       \/ dPc' = "done" /\ dStatus' = 500 /\ UNCHANGED remote
    /\ UNCHANGED <<dLogin, dVid, catalog, cacheVars, deleteRest>>

\* deleteVideoFromServer: `await fs.unlink(localPath)` returns or throws
\* ENOENT, which is ignored; the route goes on to the catalog.
DeleteLocal ==
    /\ dPc = "local"
    /\ dPc' = "catalog"
    /\ dir' = Unlinked(dVid)
    /\ fage' = [fage EXCEPT ![dVid] = 0]
    /\ ichunks' = Reclaim(ichunks, dir', fd, rdIno)
    /\ UNCHANGED <<dLogin, dVid, dStatus, remote, catalog, downloadQueue, callVars,
                   trVars, sweepVars, clearVars, deleteRest>>

\* The row of the path is deleted from playlists_videos (an error is only
\* logged); the used space is updated next.
DeleteCatalog ==
    /\ dPc = "catalog"
    /\ dPc' = "quota"
    /\ \/ catalog' = [catalog EXCEPT ![dVid] = FALSE]
       \/ UNCHANGED catalog
    /\ UNCHANGED <<dLogin, dVid, dStatus, remote, cacheVars, deleteRest>>

\* The update of espaco_usado returns; res.json({ success: true }).
DeleteAnswer ==
    /\ dPc = "quota"
    /\ dPc' = "done"
    /\ dStatus' = 200
    /\ UNCHANGED <<dLogin, dVid, remote, catalog, cacheVars, deleteRest>>

\* --------------------------------------------- identifier encoding
\* The characters of a path, as code points: '/', 'a', 'é' (which UTF-8
\* writes in two bytes) and '€' (three bytes).
CodePoints == {47, 97, 233, 8364}

\* Absolute paths of up to MaxPath characters.
PathStrings ==
    {<<47>> \o s : s \in UNION {[1..n -> CodePoints] : n \in 0..(MaxPath - 1)}}

\* The padding character '=' among the base64 digits 0..63.
Pad == 64

\* U+FFFD, what the decoder writes for bytes that are not UTF-8.
Replacement == 65533

\* Buffer.from(string): the UTF-8 bytes of the string (code points below 65536).
RECURSIVE Utf8Encode(_)
Utf8Encode(str) ==
    IF str = <<>> THEN <<>>
    ELSE (IF Head(str) < 128 THEN <<Head(str)>>
          ELSE IF Head(str) < 2048
               THEN <<192 + (Head(str) \div 64), 128 + (Head(str) % 64)>>
          ELSE <<224 + (Head(str) \div 4096), 128 + ((Head(str) \div 64) % 64),
                 128 + (Head(str) % 64)>>)
         \o Utf8Encode(Tail(str))

\* A continuation byte of a UTF-8 sequence.
IsCont(b) == b >= 128 /\ b < 192

\* buffer.toString('latin1'): one character per byte.
Latin1Decode(bytes) == bytes

\* buffer.toString(): the string the bytes are the UTF-8 of; a byte that
\* begins no shortest-form sequence of a character becomes U+FFFD.
RECURSIVE Utf8Decode(_)
Utf8Decode(bytes) ==
    IF bytes = <<>> THEN <<>>
    ELSE IF Head(bytes) < 128 THEN <<Head(bytes)>> \o Utf8Decode(Tail(bytes))
    ELSE IF /\ Head(bytes) >= 194 /\ Head(bytes) < 224 /\ Len(bytes) >= 2
            /\ IsCont(bytes[2])
         THEN <<(Head(bytes) - 192) * 64 + (bytes[2] - 128)>>
              \o Utf8Decode(SubSeq(bytes, 3, Len(bytes)))
    ELSE IF /\ Head(bytes) >= 224 /\ Head(bytes) < 240 /\ Len(bytes) >= 3
            /\ IsCont(bytes[2]) /\ IsCont(bytes[3])
            /\ (Head(bytes) = 224 => bytes[2] >= 160)
            /\ (Head(bytes) = 237 => bytes[2] < 160)
         THEN <<(Head(bytes) - 224) * 4096 + (bytes[2] - 128) * 64 + (bytes[3] - 128)>>
              \o Utf8Decode(SubSeq(bytes, 4, Len(bytes)))
    ELSE <<Replacement>> \o Utf8Decode(Tail(bytes))

\* buffer.toString('base64'): three bytes give four digits; a last group of
\* one or two bytes is padded.
RECURSIVE Base64Encode(_)
Base64Encode(b) ==
    IF b = <<>> THEN <<>>
    ELSE IF Len(b) = 1
         THEN <<(b[1] \div 4), (b[1] % 4) * 16, Pad, Pad>>
    ELSE IF Len(b) = 2
         THEN <<(b[1] \div 4), (b[1] % 4) * 16 + (b[2] \div 16), (b[2] % 16) * 4, Pad>>
    ELSE <<(b[1] \div 4), (b[1] % 4) * 16 + (b[2] \div 16),
           (b[2] % 16) * 4 + (b[3] \div 64), (b[3] % 64)>>
         \o Base64Encode(SubSeq(b, 4, Len(b)))

\* The bytes of a sequence of base64 digits without padding.
RECURSIVE Base64Bytes(_)
Base64Bytes(d) ==
    IF Len(d) < 2 THEN <<>>
    ELSE IF Len(d) = 2 THEN <<d[1] * 4 + (d[2] \div 16)>>
    ELSE IF Len(d) = 3
         THEN <<d[1] * 4 + (d[2] \div 16), (d[2] % 16) * 16 + (d[3] \div 4)>>
    ELSE <<d[1] * 4 + (d[2] \div 16), (d[2] % 16) * 16 + (d[3] \div 4), (d[3] % 4) * 64 + d[4]>>
         \o Base64Bytes(SubSeq(d, 5, Len(d)))

\* Buffer.from(id, 'base64'): the digits up to the padding are decoded.
Base64Decode(id) == Base64Bytes(SelectSeq(id, LAMBDA x : x # Pad))

\* listVideosFromServer builds the record of a file:
\* id = Buffer.from(fullPath).toString('base64').
ListId(p) ==
    /\ cPc = "idle"
    /\ cPc' = "listed"
    /\ cPath' = p
    /\ cId' = Base64Encode(Utf8Encode(p))
    /\ UNCHANGED <<cBack, codecRest>>

\* A route decodes the id: remotePath = Buffer.from(videoId, 'base64').toString().
DecodeId ==
    /\ cPc = "listed"
    /\ cPc' = "decoded"
    /\ cBack' = Utf8Decode(Base64Decode(cId))
    /\ UNCHANGED <<cPath, cId, codecRest>>

\* The next file.
CodecNext ==
    /\ cPc = "decoded"
    /\ cPc' = "idle" /\ cPath' = <<>> /\ cId' = <<>> /\ cBack' = <<>>
    /\ UNCHANGED codecRest

\* ------------------------------------------------ /content middleware
\* The parts request paths are made of: folders, names and extensions.
Tokens == {"/alice", "/api/videos-ssh", "/clip", ".mp4", ".MKV", ".m3u8", ".ts", ".txt"}
SlashTokens == {"/alice", "/api/videos-ssh", "/clip"}

\* req.path begins with a slash.
ReqPaths == {p \in UNION {[1..n -> Tokens] : n \in 1..MaxTok} : p[1] \in SlashTokens}

RangeHeaders == {"", "bytes=0-"}

\* What /i makes of the extensions of the model.
LowerCase(t) == IF t = ".MKV" THEN ".mkv" ELSE t

\* /\.(mp4|avi|mov|wmv|flv|webm|mkv)$/i
VideoExts == {".mp4", ".avi", ".mov", ".wmv", ".flv", ".webm", ".mkv"}
IsVideoFile(p) == LowerCase(p[Len(p)]) \in VideoExts

\* /\.(m3u8|ts)$/i
StreamExts == {".m3u8", ".ts"}
IsStreamFile(p) == LowerCase(p[Len(p)]) \in StreamExts

\* requestPath.includes(t) for an extension, and for '/api/videos-ssh/'.
IncludesExt(p, t) == \E i \in 1..Len(p) : p[i] = t
IncludesSshRoute(p) ==
    \E i \in 1..(Len(p) - 1) : p[i] = "/api/videos-ssh" /\ p[i + 1] \in SlashTokens

\* The Content-Type chosen for a path.
ContentType(p) ==
    IF IsStreamFile(p) /\ IncludesExt(p, ".m3u8") THEN "application/vnd.apple.mpegurl"
    ELSE IF IsStreamFile(p) /\ IncludesExt(p, ".ts") THEN "video/mp2t"
    ELSE IF IncludesExt(p, ".mp4") THEN "video/mp4"
    ELSE IF IncludesExt(p, ".avi") THEN "video/x-msvideo"
    ELSE IF IncludesExt(p, ".mov") THEN "video/quicktime"
    ELSE IF IncludesExt(p, ".wmv") THEN "video/x-ms-wmv"
    ELSE IF IncludesExt(p, ".webm") THEN "video/webm"
    ELSE IF IncludesExt(p, ".mkv") THEN "video/x-matroska"
    ELSE "video/mp4"

NoCache == "no-cache, no-store, must-revalidate"
OneHour == "public, max-age=3600"

WowzaHost(prod) == IF prod THEN "samhost.wcore.com.br" ELSE "51.222.156.223"

StreamPort == 1935
ContentPort == 6980

\* wowzaUrl of the first request.
WowzaUrl(prod, p) ==
    IF IsStreamFile(p) THEN Url(WowzaHost(prod), StreamPort, FALSE, FALSE, p)
    ELSE Url(WowzaHost(prod), ContentPort, TRUE, FALSE, p)

\* alternativeUrl of the second request.
AlternativeUrl(prod, p) == Url(WowzaHost(prod), ContentPort, FALSE, FALSE, p)

ShortTimeout == 5000
LongTimeout == 30000

\* The same with the Authorization header on every request.
FetchWithAuth(url, p, range, timeout) ==
    [url |-> url, auth |-> TRUE, range |-> range, timeout |-> timeout]

\* One fetch: the URL, the Authorization and Range headers, the timeout.
Fetch(url, p, range, timeout) ==
    [url |-> url, auth |-> ~IsStreamFile(p), range |-> range, timeout |-> timeout]

\* The statuses the media server answers with, and how a fetch fails.
UpStatuses == {200, 401, 403, 404, 503}
Failures == {"refused", "timeout"}
Ok(st) == st >= 200 /\ st < 300

\* fetchError.message of node-fetch names the URL of the failed request.
FetchMessage(kind, url) == [text |-> kind, url |-> url]

\* The 404 of the branch for an upstream answer that is not ok.
NotFound(prod, p, st) ==
    Body("Vídeo não encontrado", p, Url(WowzaHost(prod), ContentPort, FALSE, TRUE, p), st,
         [text |-> "O arquivo não foi encontrado no servidor de streaming", url |-> NoUrl])

\* The 500 of catch (fetchError).
StreamingError(kind, url) ==
    Body("Erro interno do servidor de streaming", <<>>, NoUrl, 0, FetchMessage(kind, url))

\* The retry is made for these first answers.
RetriedNever(st) == FALSE

Retried(st) == st = 401 \/ st = 403

\* A request arrives: paths of the SSH routes are passed on, other types
\* are answered 404, and for the rest the headers are set and the first
\* upstream request is made.
ProxyRequest(p, prod, range) ==
    /\ gPc = "idle"
    /\ gPath' = p /\ gProd' = prod /\ gRange' = range
    /\ IF IncludesSshRoute(p)
       THEN /\ gPc' = "next"
            /\ UNCHANGED <<gReqs, gStatus, gCache, gType, gBody, gSent>>
       ELSE IF ~IsVideoFile(p) /\ ~IsStreamFile(p)
       THEN /\ gPc' = "done"
            /\ gStatus' = 404
            /\ gBody' = Body("Arquivo não encontrado", <<>>, NoUrl, 0, [text |-> "", url |-> NoUrl])
            /\ gSent' = <<"json">>
            /\ UNCHANGED <<gReqs, gCache, gType>>
       ELSE /\ gPc' = "first"
            /\ gType' = ContentType(p)
            /\ gCache' = IF IsStreamFile(p) THEN NoCache ELSE OneHour
            /\ gReqs' = <<Fetch(WowzaUrl(prod, p), p, range,
                                IF IsStreamFile(p) THEN ShortTimeout ELSE LongTimeout)>>
            /\ UNCHANGED <<gStatus, gBody, gSent>>
    /\ UNCHANGED <<gAnswers, proxyRest>>

\* The media server answers the first request.
FirstAnswer(st) ==
    /\ gPc = "first"
    /\ gAnswers' = <<st>>
    /\ IF Ok(st)
       THEN /\ gPc' = "done" /\ gStatus' = 200 /\ gSent' = Append(gSent, "pipe")
            /\ UNCHANGED <<gReqs, gBody>>
       ELSE IF Retried(st)
       THEN /\ gPc' = "retry"
            /\ gReqs' = Append(gReqs, Fetch(AlternativeUrl(gProd, gPath), gPath, gRange,
                                            LongTimeout))
            /\ UNCHANGED <<gStatus, gBody, gSent>>
       ELSE /\ gPc' = "done" /\ gStatus' = 404
            /\ gBody' = NotFound(gProd, gPath, st)
            /\ gSent' = Append(gSent, "json")
            /\ UNCHANGED gReqs
    /\ UNCHANGED <<gPath, gProd, gRange, gCache, gType, proxyRest>>

\* The same without the `return` after the pipe: the answer 404 follows.
AltPipeThenNotFound == <<"pipe", "json">>

\* What the handler sends when the second answer is ok: the body is piped
\* and the handler returns.
AltPipeThenReturn == <<"pipe">>

\* The media server answers the second request.
RetryAnswer(st) ==
    /\ gPc = "retry"
    /\ gAnswers' = Append(gAnswers, st)
    /\ gPc' = "done"
    /\ IF Ok(st)
       THEN gStatus' = 200 /\ gSent' = gSent \o AltPipeThenReturn /\ UNCHANGED gBody
       ELSE /\ gStatus' = 404 /\ gBody' = NotFound(gProd, gPath, gAnswers[1])
            /\ gSent' = Append(gSent, "json")
    /\ UNCHANGED <<gPath, gProd, gRange, gReqs, gCache, gType, proxyRest>>

\* A fetch fails (no connection, or no answer within the timeout).
FetchFails(kind) ==
    /\ gPc \in {"first", "retry"}
    /\ gPc' = "done"
    /\ gStatus' = 500
    /\ gBody' = StreamingError(kind, gReqs[Len(gReqs)].url)
    /\ gSent' = Append(gSent, "json")
    /\ UNCHANGED <<gPath, gProd, gRange, gReqs, gAnswers, gCache, gType, proxyRest>>

\* The next request.
ProxyNext ==
    /\ gPc \in {"done", "next"}
    /\ gPc' = "idle" /\ gPath' = <<>> /\ gProd' = FALSE /\ gRange' = ""
    /\ gReqs' = <<>> /\ gAnswers' = <<>> /\ gStatus' = 0 /\ gCache' = "" /\ gType' = ""
    /\ gBody' = NoBody /\ gSent' = <<>>
    /\ UNCHANGED proxyRest

\* ----------------------------------------------- listVideosFromServer
\* The lines of the scan's output: the ls line of a file, a line that holds
\* 'total ', a line of fewer than nine fields, and a line of white space.
LineKinds == {"file", "total", "short", "blank"}
ScanLines == UNION {[1..n -> LineKinds] : n \in 0..MaxLines}

\* How executeCommand ends for the scan: it rejects, or it resolves with the
\* output, which holds NO_VIDEOS when find failed.
ScanOutcomes ==
    {NoScan}
    \cup {[ok |-> TRUE, noVideos |-> b, lines |-> l] : b \in BOOLEAN, l \in ScanLines}

\* How executeCommand ends for a probe: it rejects, or it resolves with what
\* ffprobe printed ("0" is the echo that replaces a failing ffprobe).
ProbeOutcomes == {"reject", "0", "N/A", "12.7"}

\* stdout.split('\n').filter(line => line.trim())
NonBlank(lines) == SelectSeq(lines, LAMBDA l : l # "blank")

\* The loop skips the lines that hold 'total ' or have fewer than nine fields.
IsFileLine(l) == l = "file"

\* The next line after i for which a record is built (0: none).
NextFileLine(lines, i) ==
    IF \E j \in (i + 1)..Len(lines) : IsFileLine(lines[j])
    THEN CHOOSE j \in (i + 1)..Len(lines) :
           IsFileLine(lines[j]) /\ \A k \in (i + 1)..(j - 1) : ~IsFileLine(lines[k])
    ELSE 0

\* parseFloat of a probe's output, in tenths (NaN when it is no number).
ParseFloatTenths(out) ==
    IF out = "12.7" THEN 127 ELSE IF out = "0" THEN 0 ELSE -2

\* Math.floor(parseFloat(stdout)) without the || 0.
DurationUnguarded(out) ==
    IF ParseFloatTenths(out) < 0 THEN ParseFloatTenths(out) ELSE ParseFloatTenths(out) \div 10

\* Math.floor(parseFloat(durationResult.stdout.trim()) || 0)
Duration(out) ==
    IF ParseFloatTenths(out) < 0 \/ ParseFloatTenths(out) = 0 THEN 0
    ELSE ParseFloatTenths(out) \div 10

\* What the call ends with when the scan fails: the exception itself.
ListErrorRethrown == [raised |-> TRUE, ret |-> <<>>]

\* What the call ends with when the scan fails: catch returns [].
ListError == [raised |-> FALSE, ret |-> <<>>]

\* The call begins: the scan command is sent.
ListRequest ==
    /\ lPc = "idle"
    /\ lPc' = "scan"
    /\ UNCHANGED <<lOut, lIdx, lProbes, lVideos, lRaised, lRet, listRest>>

\* The scan ends. Without result or without lines the call returns; else the
\* loop runs to the first file line and sends its probe.
ScanResult(out) ==
    /\ lPc = "scan"
    /\ lOut' = out
    /\ lProbes' = [i \in 1..Len(NonBlank(out.lines)) |-> ""]
    /\ IF ~out.ok
       THEN /\ lPc' = "done" /\ lRaised' = ListError.raised /\ lRet' = ListError.ret
            /\ UNCHANGED lIdx
       ELSE IF out.noVideos \/ NextFileLine(NonBlank(out.lines), 0) = 0
       THEN lPc' = "done" /\ lRet' = <<>> /\ UNCHANGED <<lIdx, lRaised>>
       ELSE /\ lPc' = "probe"
            /\ lIdx' = NextFileLine(NonBlank(out.lines), 0)
            /\ UNCHANGED <<lRaised, lRet>>
    /\ UNCHANGED <<lVideos, listRest>>

\* The probe of the current line ends: its record is pushed, and the loop
\* runs to the next file line or the call returns the list.
ProbeResult(out) ==
    /\ lPc = "probe"
    /\ lProbes' = [lProbes EXCEPT ![lIdx] = out]
    /\ lVideos' = Append(lVideos, [line |-> lIdx,
                                   duration |-> IF out = "reject" THEN 0 ELSE Duration(out)])
    /\ IF NextFileLine(NonBlank(lOut.lines), lIdx) = 0
       THEN lPc' = "done" /\ lRet' = lVideos' /\ UNCHANGED lIdx
       ELSE /\ lPc' = "probe" /\ lIdx' = NextFileLine(NonBlank(lOut.lines), lIdx)
            /\ UNCHANGED lRet
    /\ UNCHANGED <<lOut, lRaised, listRest>>

\* The next call.
ListNext ==
    /\ lPc = "done"
    /\ lPc' = "idle" /\ lOut' = NoScan /\ lIdx' = 0 /\ lProbes' = <<>> /\ lVideos' = <<>>
    /\ lRaised' = FALSE /\ lRet' = <<>>
    /\ UNCHANGED listRest

\* ------------------------------------------------- GET /info/:videoId
InfoPaths == {<<d, "clip", e>> : d \in {"/alice/", "/bob/"}, e \in {".mp4", ".MKV", ".txt", ""}}

\* path.basename(remotePath)
BaseName(p) == <<p[2], p[3]>>

\* path.extname(fileName).toLowerCase().substring(1)
Format(p) ==
    IF p[3] = ".mp4" THEN "mp4" ELSE IF p[3] = ".MKV" THEN "mkv"
    ELSE IF p[3] = ".txt" THEN "txt" ELSE ""

\* How getFileInfo ends: rejected, no such file, an empty file, a file.
StatOutcomes == {"reject", "missing", "empty", "file"}

\* checkVideoAvailability: available
Available(p, out) == out = "file" /\ LowerCase(p[3]) \in VideoExts

\* How the ls command ends: rejected, an output of fewer than five fields,
\* an output with the size 5.
LsOutcomes == {"reject", "short", "5"}

\* parseInt(lsParts[4]) || 0
LsSize(out) == IF out = "5" THEN 5 ELSE 0

\* How the ffprobe command ends: rejected, NO_FFPROBE, an output that is no
\* JSON, JSON without format and streams, with a format only, with a format
\* and a video stream.
FfOutcomes == {"reject", "NO_FFPROBE", "garbage", "{}", "format", "format+video"}

\* The record built from the outputs of the two commands.
InfoOf(p, ls, ff) ==
    VideoInfo(BaseName(p), LsSize(ls),
              IF ff \in {"format", "format+video"} THEN 12 ELSE 0,
              IF ff = "format+video" THEN 640 ELSE 0,
              IF ff = "format+video" THEN 360 ELSE 0,
              IF ff \in {"format", "format+video"} THEN 800 ELSE 0,
              IF ff = "format+video" THEN "h264" ELSE "unknown",
              Format(p))

\* The request arrives: userLogin is read from the token and used nowhere,
\* the path is decoded and the server of the caller is looked up.
InfoRequest(login, p) ==
    /\ iPc = "idle"
    /\ iPc' = "db" /\ iLogin' = login /\ iPath' = p
    /\ UNCHANGED <<iLs, iFf, iStatus, iInfo, infoRest>>

\* The lookup ends: checkVideoAvailability is called, or the route answers 500.
InfoDb(ok) ==
    /\ iPc = "db"
    /\ IF ok THEN iPc' = "avail" /\ UNCHANGED iStatus
       ELSE iPc' = "done" /\ iStatus' = 500
    /\ UNCHANGED <<iLogin, iPath, iLs, iFf, iInfo, infoRest>>

\* getFileInfo ends: 404 when the video is not available, else getVideoInfo
\* sends its two commands.
InfoAvail(out) ==
    /\ iPc = "avail"
    /\ IF Available(iPath, out) THEN iPc' = "probe" /\ UNCHANGED iStatus
       ELSE iPc' = "done" /\ iStatus' = 404
    /\ UNCHANGED <<iLogin, iPath, iLs, iFf, iInfo, infoRest>>

\* Promise.all of the two commands settles: getVideoInfo returns the record,
\* or null when one of them was rejected, and the route answers.
InfoProbe(ls, ff) ==
    /\ iPc = "probe"
    /\ iPc' = "done" /\ iLs' = ls /\ iFf' = ff
    /\ iInfo' = IF ls = "reject" \/ ff = "reject" THEN NullInfo ELSE InfoOf(iPath, ls, ff)
    /\ iStatus' = 200
    /\ UNCHANGED <<iLogin, iPath, infoRest>>

\* The next request.
InfoNext ==
    /\ iPc = "done"
    /\ iPc' = "idle" /\ iLogin' = "" /\ iPath' = <<>> /\ iLs' = "" /\ iFf' = "" /\ iStatus' = 0
    /\ iInfo' = NullInfo
    /\ UNCHANGED infoRest

\* ------------------------------------------------ PUT /:videoId/rename
\* Strings are sequences of characters; the names of the folders of the
\* logins are one character each.
NameChars == {"a", "/", " "}
NewNames == UNION {[1..n -> NameChars] : n \in 0..MaxName}

\* The decoded paths, below /usr/local/WowzaStreamingEngine/content and
\* split at '/': /alice/a.m, /alice/bob/a, /alice/.m and /bob/a.m.
RenamePaths ==
    { << <<>>, <<"alice">>, <<"a", ".", "m">> >>,
      << <<>>, <<"alice">>, <<"bob">>, <<"a">> >>,
      << <<>>, <<"alice">>, <<".", "m">> >>,
      << <<>>, <<"bob">>, <<"a", ".", "m">> >> }

\* str.trim()
RECURSIVE TrimLeft(_)
TrimLeft(str) ==
    IF str # <<>> /\ Head(str) = " " THEN TrimLeft(Tail(str)) ELSE str
RECURSIVE TrimRight(_)
TrimRight(str) ==
    IF str # <<>> /\ str[Len(str)] = " " THEN TrimRight(SubSeq(str, 1, Len(str) - 1))
    ELSE str
Trim(str) == TrimRight(TrimLeft(str))

\* parts.join('/')
RECURSIVE Join(_)
Join(parts) ==
    IF Len(parts) = 0 THEN <<>>
    ELSE IF Len(parts) = 1 THEN parts[1]
    ELSE parts[1] \o <<"/">> \o Join(Tail(parts))

\* str.split('/')
RECURSIVE Split(_)
Split(str) ==
    IF \A i \in 1..Len(str) : str[i] # "/" THEN <<str>>
    ELSE LET i == CHOOSE k \in 1..Len(str) :
                    str[k] = "/" /\ \A j \in 1..(k - 1) : str[j] # "/"
         IN  <<SubSeq(str, 1, i - 1)>> \o Split(SubSeq(str, i + 1, Len(str)))

\* path.extname(name): from the last dot, unless there is none or the name
\* begins with it.
ExtName(name) ==
    IF \A i \in 1..Len(name) : name[i] # "." THEN <<>>
    ELSE LET i == CHOOSE k \in 1..Len(name) :
                    name[k] = "." /\ \A j \in (k + 1)..Len(name) : name[j] # "."
         IN  IF i = 1 THEN <<>> ELSE SubSeq(name, i, Len(name))

\* remotePath.includes(`/${userLogin}/`)
IncludesLogin(parts, login) ==
    \E i \in 2..(Len(parts) - 1) : parts[i] = <<login>>

\* newFileName: novo_nome.trim() + fileExtension
NewFileName(parts, name) == Trim(name) \o ExtName(parts[Len(parts)])

\* newRemotePath: the last part replaced, joined.
NewRemotePath(parts, name) ==
    Join([parts EXCEPT ![Len(parts)] = NewFileName(parts, name)])

\* The path the media server resolves a string to: empty components of the
\* path name nothing.
Resolve(str) ==
    <<<<>>>> \o SelectSeq(Split(str), LAMBDA c : c # <<>>)

\* Where mv "old" "new" puts the file: a target that ends with '/' is a
\* folder, and the file keeps its name in it.
MvTarget(parts, new) ==
    IF new # <<>> /\ new[Len(new)] = "/" THEN Resolve(new) \o <<parts[Len(parts)]>>
    ELSE Resolve(new)

\* The request arrives: 400 without a name, 403 for a path without the
\* login of the caller; else the server of the caller is looked up.
RenameRequest(p, name, row) ==
    /\ nPc = "idle"
    /\ nPath' = p /\ nName' = name
    /\ nFile' = p
    /\ nRow' = IF row THEN Join(p) ELSE <<>>
    /\ IF Trim(name) = <<>> THEN nPc' = "done" /\ nStatus' = 400
       ELSE IF ~IncludesLogin(p, "alice") THEN nPc' = "done" /\ nStatus' = 403
       ELSE nPc' = "db" /\ UNCHANGED nStatus
    /\ UNCHANGED <<nNew, nUpd, renameRest>>

\* The lookup ends: the mv command is sent, or the route answers 500.
RenameDb(ok) ==
    /\ nPc = "db"
    /\ IF ok
       THEN nPc' = "mv" /\ nNew' = NewRemotePath(nPath, nName) /\ UNCHANGED nStatus
       ELSE nPc' = "done" /\ nStatus' = 500 /\ UNCHANGED nNew
    /\ UNCHANGED <<nPath, nName, nFile, nRow, nUpd, renameRest>>

\* The mv command ends: the file is at the new path and the UPDATE of the
\* catalog is sent, or the route answers 500.
RenameMv(ok) ==
    /\ nPc = "mv"
    /\ IF ok
       THEN nPc' = "update" /\ nFile' = MvTarget(nPath, nNew) /\ UNCHANGED nStatus
       ELSE nPc' = "done" /\ nStatus' = 500 /\ UNCHANGED nFile
    /\ UNCHANGED <<nPath, nName, nNew, nRow, nUpd, renameRest>>

\* The UPDATE ends: the row with the old path, if any, has the new path; a
\* failure is logged. The route answers success.
RenameUpdate(ok) ==
    /\ nPc = "update"
    /\ nPc' = "done" /\ nStatus' = 200
    /\ nUpd' = IF ok THEN "ok" ELSE "failed"
    /\ nRow' = IF ok /\ nRow = Join(nPath) THEN nNew ELSE nRow
    /\ UNCHANGED <<nPath, nName, nNew, nFile, renameRest>>

\* The next request.
RenameNext ==
    /\ nPc = "done"
    /\ nPc' = "idle" /\ nPath' = <<>> /\ nName' = <<>> /\ nStatus' = 0 /\ nNew' = <<>>
    /\ nFile' = <<>> /\ nRow' = <<>> /\ nUpd' = ""
    /\ UNCHANGED renameRest

\* ----------------------------- GET /stream/:videoId: serving the file
\* The characters a Range header is made of: the text "bytes=" (one token,
\* what the pattern /bytes=/ matches), digits, the dash, any other character.
Digits == {"0", "1", "2"}
Chars == {"bytes=", "-", "x"} \cup Digits
Headers == UNION {[1..n -> Chars] : n \in 0..MaxHdr}
Sizes == 0..MaxSize

\* The value JavaScript writes NaN (parseInt yields no negative number here:
\* the '-' splits the parts).
NaN == -2

\* The JSON body of an error answer: bytes that are not bytes of the file.
ErrorBody == <<-1>>

DigitVal(d) == CASE d = "0" -> 0 [] d = "1" -> 1 [] d = "2" -> 2

\* The longest prefix of s made of digits.
RECURSIVE DigitPrefix(_)
DigitPrefix(s) ==
    IF s = <<>> \/ Head(s) \notin Digits THEN <<>>
    ELSE <<Head(s)>> \o DigitPrefix(Tail(s))

RECURSIVE DecValue(_)
DecValue(s) ==
    IF s = <<>> THEN 0 ELSE DecValue(SubSeq(s, 1, Len(s) - 1)) * 10 + DigitVal(s[Len(s)])

\* parseInt(s, 10): the digits s starts with, NaN when it starts with none.
ParseInt(s) == IF DigitPrefix(s) = <<>> THEN NaN ELSE DecValue(DigitPrefix(s))

\* range.replace(/bytes=/, ""): the first occurrence is removed.
RemoveBytes(h) ==
    IF \E i \in 1..Len(h) : h[i] = "bytes="
       THEN LET i == CHOOSE i \in 1..Len(h) :
                        h[i] = "bytes=" /\ \A j \in 1..(i - 1) : h[j] # "bytes="
            IN SubSeq(h, 1, i - 1) \o SubSeq(h, i + 1, Len(h))
       ELSE h

\* The positions of the dashes of s.
Dashes(s) == {i \in 1..Len(s) : s[i] = "-"}

\* s.split("-")[0]
Part0(s) ==
    IF Dashes(s) = {} THEN s
    ELSE SubSeq(s, 1, (CHOOSE i \in Dashes(s) : \A j \in Dashes(s) : i <= j) - 1)

\* s.split("-")[1]; <<>> stands for both "" and undefined, which the
\* test `parts[1] ?` does not tell apart.
Part1(s) ==
    IF Dashes(s) = {} THEN <<>>
    ELSE LET i == CHOOSE i \in Dashes(s) : \A j \in Dashes(s) : i <= j
             rest == SubSeq(s, i + 1, Len(s))
         IN Part0(rest)

\* const start = parseInt(parts[0], 10)
RangeStart(h) == ParseInt(Part0(RemoveBytes(h)))

\* The same with the default of `end` one byte too far.
RangeEndPastEof(h, size) ==
    IF Part1(RemoveBytes(h)) # <<>> THEN ParseInt(Part1(RemoveBytes(h))) ELSE size

\* const end = parts[1] ? parseInt(parts[1], 10) : stats.size - 1
RangeEnd(h, size) ==
    IF Part1(RemoveBytes(h)) # <<>> THEN ParseInt(Part1(RemoveBytes(h))) ELSE size - 1

\* const chunksize = (end - start) + 1
ChunkSize(start, end) == IF start = NaN \/ end = NaN THEN NaN ELSE (end - start) + 1

\* fs.createReadStream(localPath, { start, end }) throws when start or end
\* is not an integer >= 0 (NaN, or the -1 an empty file gives as the default
\* of `end`) or when start > end.
StreamThrows(start, end) == start < 0 \/ end < 0 \/ start > end

\* The offsets a read stream with { start, end } delivers from a file of
\* `size` bytes: it stops at the end of the file.
BytesOf(start, end, size) ==
    LET last == IF end < size - 1 THEN end ELSE size - 1
    IN [k \in 1..(IF last >= start THEN last - start + 1 ELSE 0) |-> start + k - 1]

\* The same, telling the client that ranges are not supported.
AcceptRangesNone == "none"

\* res.setHeader('Accept-Ranges', 'bytes')
AcceptRanges == "bytes"

\* The route has the result of getVideoStream for a local file of `size`
\* bytes and awaits fs.stat(localPath).
ServeRequest(h, size) ==
    /\ rPc = "idle"
    /\ rPc' = "stat"
    /\ rHdr' = h
    /\ rSize' = size
    /\ UNCHANGED <<rStatus, rLen, rRange, rAccept, rBody, rangeRest>>

\* fs.stat returns: the headers are set and the file is piped to the
\* response, from `start` to `end` with status 206 when the request has a
\* Range header, whole with status 200 when it has none.  When
\* createReadStream throws, the catch answers 500 with a JSON body
\* (res.json sets the Content-Length of that body; the Content-Range set
\* before stays).
ServeFile ==
    /\ rPc = "stat"
    /\ rPc' = "done"
    /\ rAccept' = AcceptRanges
    /\ IF rHdr # <<>>
          THEN LET start == RangeStart(rHdr)
                   end == RangeEnd(rHdr, rSize)
               IN /\ rRange' = <<start, end, rSize>>
                  /\ IF StreamThrows(start, end)
                        THEN /\ rStatus' = 500
                             /\ rLen' = Len(ErrorBody)
                             /\ rBody' = ErrorBody
                        ELSE /\ rStatus' = 206
                             /\ rLen' = ChunkSize(start, end)
                             /\ rBody' = BytesOf(start, end, rSize)
          ELSE /\ rStatus' = 200
               /\ rLen' = rSize
               /\ rRange' = <<>>
               /\ rBody' = BytesOf(0, rSize - 1, rSize)
    /\ UNCHANGED <<rHdr, rSize, rangeRest>>

\* The next request.
ServeNext ==
    /\ rPc = "done"
    /\ rPc' = "idle"
    /\ rHdr' = <<>> /\ rSize' = 0
    /\ rStatus' = 0 /\ rLen' = 0 /\ rRange' = <<>> /\ rAccept' = "" /\ rBody' = <<>>
    /\ UNCHANGED rangeRest

\* ------------------------------------------- POST /upload, DELETE /:id
Uploads == 1..NumUploads

\* 1024 * 1024
MB == 1024 * 1024

\* What parseInt(req.body.tamanho) may be: NaN, or a number the client sent.
ParsedTamanhos ==
    {[nan |-> TRUE, val |-> 0], [nan |-> FALSE, val |-> 0], [nan |-> FALSE, val |-> -(MB + 1)]}

\* req.file.size, in bytes
UploadSizes == {1, MB + 1}

\* parseInt(req.body.tamanho) || req.file.size
Tamanho(parsed, size) == IF ~parsed.nan /\ parsed.val # 0 THEN parsed.val ELSE size

\* Math.ceil(bytes / (1024 * 1024))
CeilMB(bytes) == -((-bytes) \div MB)

\* spaceMB > availableSpace, with availableSpace = espaco - espaco_usado
\* of the row the SELECT returned
Insufficient(spaceMB, used) == spaceMB > Espaco - used

\* GREATEST(espaco_usado - ?, 0)
Greatest(a, b) == IF a >= b THEN a ELSE b

\* The smallest codigo of playlists_videos that is free.
InsertId(rows) == CHOOSE k \in 1..MaxRows :
                     /\ \A r \in rows : r[1] # k
                     /\ \A j \in 1..(k - 1) : \E r \in rows : r[1] = j

\* The file has arrived (multer); tamanho is computed and the row of the
\* folder is selected.
UploadRequest(u, parsed, size) ==
    /\ uPc[u] = "idle"
    /\ qUsed >= -Espaco /\ qUsed <= 2 * Espaco
    /\ uPc' = [uPc EXCEPT ![u] = "select"]
    /\ uTam' = [uTam EXCEPT ![u] = Tamanho(parsed, size)]
    /\ UNCHANGED <<qUsed, qRows, uStatus, xPc, xRow, xSize, xStatus, quotaRest>>

\* The SELECT returns: 404 without a row; 400 when the file does not fit in
\* espaco - espaco_usado as read now; else the file is sent to the server.
UploadSelect(u, found) ==
    /\ uPc[u] = "select"
    /\ IF ~found
       THEN uPc' = [uPc EXCEPT ![u] = "done"] /\ uStatus' = [uStatus EXCEPT ![u] = 404]
       ELSE IF Insufficient(CeilMB(uTam[u]), qUsed)
       THEN uPc' = [uPc EXCEPT ![u] = "done"] /\ uStatus' = [uStatus EXCEPT ![u] = 400]
       ELSE uPc' = [uPc EXCEPT ![u] = "send"] /\ UNCHANGED uStatus
    /\ UNCHANGED <<qUsed, qRows, uTam, xPc, xRow, xSize, xStatus, quotaRest>>

\* createUserDirectory, createUserFolder, uploadFile and fs.unlink end, or
\* one of them throws (500).
UploadSend(u, ok) ==
    /\ uPc[u] = "send"
    /\ IF ok THEN uPc' = [uPc EXCEPT ![u] = "insert"] /\ UNCHANGED uStatus
       ELSE uPc' = [uPc EXCEPT ![u] = "done"] /\ uStatus' = [uStatus EXCEPT ![u] = 500]
    /\ UNCHANGED <<qUsed, qRows, uTam, xPc, xRow, xSize, xStatus, quotaRest>>

\* INSERT INTO playlists_videos ends, or throws (500).
UploadInsert(u, ok) ==
    /\ uPc[u] = "insert"
    /\ IF ok
       THEN /\ Cardinality(qRows) < MaxRows
            /\ qRows' = qRows \cup {<<InsertId(qRows), uTam[u]>>}
            /\ uPc' = [uPc EXCEPT ![u] = "update"] /\ UNCHANGED uStatus
       ELSE /\ uPc' = [uPc EXCEPT ![u] = "done"] /\ uStatus' = [uStatus EXCEPT ![u] = 500]
            /\ UNCHANGED qRows
    /\ UNCHANGED <<qUsed, uTam, xPc, xRow, xSize, xStatus, quotaRest>>

\* UPDATE streamings SET espaco_usado = espaco_usado + spaceMB ends (201),
\* or throws (500).
UploadUpdate(u, ok) ==
    /\ uPc[u] = "update"
    /\ uPc' = [uPc EXCEPT ![u] = "done"]
    /\ IF ok
       THEN qUsed' = qUsed + CeilMB(uTam[u]) /\ uStatus' = [uStatus EXCEPT ![u] = 201]
       ELSE uStatus' = [uStatus EXCEPT ![u] = 500] /\ UNCHANGED qUsed
    /\ UNCHANGED <<qRows, uTam, xPc, xRow, xSize, xStatus, quotaRest>>

\* The next upload.
UploadNext(u) ==
    /\ uPc[u] = "done"
    /\ uPc' = [uPc EXCEPT ![u] = "idle"]
    /\ uTam' = [uTam EXCEPT ![u] = 0]
    /\ uStatus' = [uStatus EXCEPT ![u] = 0]
    /\ UNCHANGED <<qUsed, qRows, xPc, xRow, xSize, xStatus, quotaRest>>

\* DELETE /:id of a video in the caller's folder: the row is selected (404
\* without one), then the server is looked up.
VideoDelete(id) ==
    /\ xPc = "idle"
    /\ IF \E r \in qRows : r[1] = id
       THEN /\ xRow' = CHOOSE r \in qRows : r[1] = id
            /\ xPc' = "file" /\ UNCHANGED xStatus
       ELSE xPc' = "done" /\ xStatus' = 404 /\ UNCHANGED xRow
    /\ UNCHANGED <<qUsed, qRows, uPc, uTam, uStatus, xSize, quotaRest>>

\* fileSize is tamanho_arquivo, or the size getFileInfo reports when that
\* is 0; the remote file is deleted (a failure is logged and ignored).
VideoDeleteFile(real) ==
    /\ xPc = "file"
    /\ xSize' = IF xRow[2] # 0 THEN xRow[2] ELSE real
    /\ xPc' = "update"
    /\ UNCHANGED <<qUsed, qRows, uPc, uTam, uStatus, xRow, xStatus, quotaRest>>

\* if (fileSize > 0) UPDATE ... GREATEST(espaco_usado - spaceMB, 0); then
\* the row is deleted and the route answers.  A statement that throws
\* ends the request with 500.
VideoDeleteUpdate(ok) ==
    /\ xPc = "update"
    /\ xPc' = "done"
    /\ IF ok
       THEN /\ qUsed' = IF xSize > 0 THEN Greatest(qUsed - CeilMB(xSize), 0) ELSE qUsed
            /\ qRows' = qRows \ {xRow}
            /\ xStatus' = 200
       ELSE xStatus' = 500 /\ UNCHANGED <<qUsed, qRows>>
    /\ UNCHANGED <<uPc, uTam, uStatus, xRow, xSize, quotaRest>>

\* The next delete.
VideoDeleteNext ==
    /\ xPc = "done"
    /\ xPc' = "idle" /\ xRow' = <<0, 0>> /\ xSize' = 0 /\ xStatus' = 0
    /\ UNCHANGED <<qUsed, qRows, uPc, uTam, uStatus, quotaRest>>

\* The quota update of DELETE /api/videos-ssh/:videoId for a remote file of
\* fileSize > 0 bytes.
SshDeleteUpdate(size) ==
    /\ qUsed' = Greatest(qUsed - CeilMB(size), 0)
    /\ UNCHANGED <<qRows, uPc, uTam, uStatus, xPc, xRow, xSize, xStatus, quotaRest>>

\* The quota of one folder under uploads and deletes.
QuotaStep ==
    \/ \E u \in Uploads, parsed \in ParsedTamanhos, size \in UploadSizes :
           UploadRequest(u, parsed, size)
    \/ \E u \in Uploads, found \in BOOLEAN : UploadSelect(u, found)
    \/ \E u \in Uploads, ok \in BOOLEAN : UploadSend(u, ok)
    \/ \E u \in Uploads, ok \in BOOLEAN : UploadInsert(u, ok)
    \/ \E u \in Uploads, ok \in BOOLEAN : UploadUpdate(u, ok)
    \/ \E u \in Uploads : UploadNext(u)
    \/ \E id \in 1..MaxRows : VideoDelete(id)
    \/ \E real \in {0} \cup UploadSizes : VideoDeleteFile(real)
    \/ \E ok \in BOOLEAN : VideoDeleteUpdate(ok)
    \/ VideoDeleteNext
    \/ \E size \in UploadSizes : SshDeleteUpdate(size)

QuotaSpec == Init /\ [][QuotaStep]_vars

\* ------------------------------------------------------ specification
\* The arrival of one of the first n requests, for an identifier of V.
Arrive(n, V) == \E c \in 1..n, v \in V : Acquire(c, v)

\* The steps of the download coordinator.
TransferStep ==
    \/ \E c \in Calls : StatResult(c)
    \/ \E t \in Calls : ConnOk(t)
    \/ \E t \in Calls : ConnFail(t)
    \/ \E t \in Calls : SftpOk(t)
    \/ \E t \in Calls : SftpFail(t)
    \/ \E t \in Calls : Data(t)
    \/ \E t \in Calls : Finish(t)
    \/ \E t \in Calls : ReadError(t)
    \/ \E t \in Calls : WriteError(t)
    \/ \E t \in Calls : UnlinkDone(t)

\* The same, with the serving of the file by the stream route.
RouteStep ==
    \/ TransferStep
    \/ \E c \in Calls : ServeOpen(c)
    \/ \E c \in Calls : ServeEnd(c)

\* The same, with the passing of time.
CoordStep == RouteStep \/ Tick

\* The steps of the sweep and of clearCache.
CacheStep ==
    \/ SweepStart
    \/ SweepStat
    \/ SweepUnlink
    \/ ClearStart
    \/ ClearUnlink

\* The coordinator under NumCalls requests.
Next == Arrive(NumCalls, OneId) \/ CoordStep

Spec == Init /\ [][Next]_vars

\* The coordinator under one request more.
RaceNext == Arrive(NumCalls + 1, OneId) \/ CoordStep

RaceSpec == Init /\ [][RaceNext]_vars

\* The coordinator together with the sweep and clearCache.
CacheNext == Arrive(NumCalls, OneId) \/ CoordStep \/ CacheStep

CacheSpec == Init /\ [][CacheNext]_vars

\* The coordinator under requests for two identifiers, together with the
\* sweep.
SweepNext ==
    \/ Arrive(NumCalls, VideoIds)
    \/ CoordStep
    \/ SweepStart
    \/ SweepStat
    \/ SweepUnlink

SweepSpec == Init /\ [][SweepNext]_vars

\* The transfers of requests that ask for the two identifiers in turn,
\* together with clearCache (which reads no clock: time does not pass).
ClearNext ==
    \/ \E c \in 1..NumCalls : Acquire(c, IF c % 2 = 1 THEN "vidA" ELSE "vidB")
    \/ TransferStep
    \/ ClearStart
    \/ ClearUnlink

ClearSpec == Init /\ [][ClearNext]_vars

\* The transfers of requests for one identifier, together with one DELETE.
DeleteNext ==
    \/ Arrive(NumCalls, OneId)
    \/ TransferStep
    \/ \E login \in Logins, v \in VideoIds : DeleteRequest(login, v)
    \/ DeleteDb
    \/ DeleteInfo
    \/ DeleteRemote
    \/ DeleteLocal
    \/ DeleteCatalog
    \/ DeleteAnswer

DeleteSpec == Init /\ [][DeleteNext]_vars

\* The coordinator with a remote side that may stall.  The event loop runs
\* every continuation that is ready, and the remote side that has not
\* stalled goes on sending.
LiveNext == Arrive(NumCalls, OneId) \/ CoordStep \/ \E t \in Calls : Stall(t)

Fairness ==
    \A c \in Calls :
        /\ WF_vars(StatResult(c))
        /\ WF_vars(ConnOk(c))
        /\ WF_vars(SftpOk(c))
        /\ WF_vars(Data(c))
        /\ WF_vars(Finish(c))
        /\ WF_vars(UnlinkDone(c))
        /\ WF_vars(ServeOpen(c))
        /\ WF_vars(ServeEnd(c))

LiveSpec == Init /\ [][LiveNext]_vars /\ Fairness

\* The ownership check of the stream route.
AuthNext ==
    \/ \E login \in Logins, p \in Paths : StreamRequest(login, p)
    \/ StreamDb
    \/ \E st \in {200, 500} : StreamAnswer(st)
    \/ StreamNext

AuthSpec == Init /\ [][AuthNext]_vars

\* The serving of a cache file by the stream route.
RangeNext ==
    \/ rPc = "idle" /\ \E h \in Headers, size \in Sizes : ServeRequest(h, size)
    \/ ServeFile
    \/ ServeNext

RangeSpec == Init /\ [][RangeNext]_vars

\* The identifiers of the lister, decoded by a route.
CodecStep ==
    \/ cPc = "idle" /\ \E p \in PathStrings : ListId(p)
    \/ DecodeId
    \/ CodecNext

CodecSpec == Init /\ [][CodecStep]_vars

\* The requests of the /content middleware.
ProxyStep ==
    \/ gPc = "idle" /\ \E p \in ReqPaths, prod \in BOOLEAN, range \in RangeHeaders :
                        ProxyRequest(p, prod, range)
    \/ \E st \in UpStatuses : FirstAnswer(st)
    \/ \E st \in UpStatuses : RetryAnswer(st)
    \/ \E kind \in Failures : FetchFails(kind)
    \/ ProxyNext

ProxySpec == Init /\ [][ProxyStep]_vars

\* The calls of the lister.
ListStep ==
    \/ ListRequest
    \/ lPc = "scan" /\ \E out \in ScanOutcomes : ScanResult(out)
    \/ \E out \in ProbeOutcomes : ProbeResult(out)
    \/ ListNext

ListSpec == Init /\ [][ListStep]_vars

\* The requests of the info route.
InfoStep ==
    \/ \E login \in Logins, p \in InfoPaths : InfoRequest(login, p)
    \/ \E ok \in BOOLEAN : InfoDb(ok)
    \/ \E out \in StatOutcomes : InfoAvail(out)
    \/ \E ls \in LsOutcomes, ff \in FfOutcomes : InfoProbe(ls, ff)
    \/ InfoNext

InfoSpec == Init /\ [][InfoStep]_vars

\* The requests of the rename route.
RenameStep ==
    \/ nPc = "idle" /\ \E p \in RenamePaths, name \in NewNames, row \in BOOLEAN :
                        RenameRequest(p, name, row)
    \/ \E ok \in BOOLEAN : RenameDb(ok)
    \/ \E ok \in BOOLEAN : RenameMv(ok)
    \/ \E ok \in BOOLEAN : RenameUpdate(ok)
    \/ RenameNext

RenameSpec == Init /\ [][RenameStep]_vars

\* ---------------------------------------------------------- properties
\* The step in which call c arrives (the queue check of downloadVideoToTemp).
Arrives(c) == pc[c] = "idle" /\ pc'[c] # "idle"

\* The step in which the fs.stat of call c in downloadVideoToTemp returns.
Stats(c) == pc[c] = "stat" /\ pc'[c] # "stat"

\* The step in which the promise of transfer t is rejected.
Fails(t) == tr[t] # "failed" /\ tr'[t] = "failed"

\* C1: whatever the interleaving of concurrent calls for one identifier, at
\* most one transfer is in flight for it (N calls start exactly one).
C1_AtMostOneTransfer ==
    \A v \in VideoIds : Cardinality(InFlightFor(v)) <= 1

\* C2: a file reported as a cache hit, and a file the stream route reads, is
\* the result of a completed transfer: it holds the whole content and is not
\* the write target of a transfer in flight.
C2_OnlyCompleteFilesServed ==
    [][\A c \in Calls :
         /\ (Stats(c) /\ pc'[c] = "local") => Complete(dir[vid[c]])
         /\ (pc[c] = "local" /\ pc'[c] = "piping") => Complete(dir[vid[c]])]_vars

\* C3: a call that arrives while a task is registered for its identifier
\* returns the registered promise and starts no transfer; the transfers of the
\* identifier are the same before and after its arrival.
C3_JoinsRegisteredTask ==
    /\ [][\A c \in Calls :
            (Arrives(c) /\ downloadQueue[vid'[c]] # NoTask)
               => /\ pc'[c] = "wait"
                  /\ awaiting'[c] = downloadQueue[vid'[c]]
                  /\ InFlight(awaiting'[c])
                  /\ tr' = tr]_vars
    /\ [](\A c \in Calls : pc[c] = "wait" => tr[c] = "none" /\ InFlight(awaiting[c]))

\* A call is suspended on the promise of the one transfer in flight.
C3_Witness ==
    \E c \in Calls :
        /\ pc[c] = "wait"
        /\ InFlightFor(vid[c]) = {awaiting[c]}
        /\ fd[awaiting[c]] # NoIno

\* C4: a call that arrived while a transfer was in flight for its identifier
\* does not succeed when that transfer fails.
C4_SameOutcomeAsInitiator ==
    \A c \in Calls : \A t \in during[c] :
        ~(pc[c] \in {"local", "piping"} /\ tr[t] = "failed")

C6_CleanAfterFailure ==
    [][\A t \in Calls :
         Fails(t) =>
            /\ dir'[vid[t]] = NoIno \/ unl'[t]
            /\ downloadQueue'[vid[t]] = NoTask
            /\ \A c \in Calls : ~(pc'[c] \in {"own", "wait"} /\ awaiting'[c] = t)]_vars

\* C7: a call that arrives after a transfer of its identifier failed, with no
\* other request under way and no transfer ever completed, starts a new
\* transfer: it is not answered from a file left behind.
C7_RetryAfterFailure ==
    [][\A c \in Calls :
         (/\ prior[c] # {}
          /\ \A d \in Calls \ {c} : pc[d] \in {"idle", "done"}
          /\ \A t \in Calls : tr[t] # "done"
          /\ Stats(c))
         => pc'[c] = "own" /\ tr'[c] = "conn"]_vars

\* C8: the sweep and clearCache never unlink the file an in-flight transfer
\* is writing.
C8_NoUnlinkOfWriteTarget ==
    [][(SweepUnlink \/ ClearUnlink) =>
          \A v \in VideoIds :
             (dir[v] # NoIno /\ dir'[v] = NoIno) => ~BeingWritten(dir[v])]_vars

\* C9: every registered task is eventually removed from the registry and
\* every call suspended on a promise is eventually released.
C9_EveryTaskEnds ==
    /\ \A v \in VideoIds : (downloadQueue[v] # NoTask) ~> (downloadQueue[v] = NoTask)
    /\ \A c \in Calls : (pc[c] \in {"own", "wait"}) ~> (pc[c] \notin {"own", "wait"})

\* C10: a request for a path whose owner segment is not the caller's login
\* is answered 403 and makes no catalog query, remote command, transfer or
\* cache read.
C10_ForeignPathGets403 ==
    (aPc # "idle" /\ OwnerOf(aPath) # aLogin)
       => (aIO = 0 /\ (aPc = "done" => aStatus = 403))

\* The decimal digits of the numbers 0..2, as a Range header writes them.
Dec == <<"0", "1", "2">>

\* The file offsets first..last, in order.
FileBytes(first, last) == [k \in 1..(last - first + 1) |-> first + k - 1]

\* C11: for a file of size S and a header bytes=start-end with
\* 0 <= start <= end < S (end omitted meaning S-1) the answer is 206 with
\* Content-Range bytes start-end/S, Content-Length end-start+1 and the bytes
\* start..end of the file as the body.
C11_RangeAnswers206 ==
    \A st, en \in 0..(Len(Dec) - 1) :
        (/\ rPc = "done"
         /\ st <= en /\ en < rSize
         /\ \/ rHdr = <<"bytes=", Dec[st + 1], "-", Dec[en + 1]>>
            \/ en = rSize - 1 /\ rHdr = <<"bytes=", Dec[st + 1], "-">>)
        => /\ rStatus = 206
           /\ rRange = <<st, en, rSize>>
           /\ rLen = en - st + 1
           /\ rBody = FileBytes(st, en)

\* Both forms have been answered: bytes=1-1 and bytes=1- on a file of 3 bytes.
C11_Witness ==
    /\ rPc = "done" /\ rSize = 3 /\ rStatus = 206
    /\ rHdr \in {<<"bytes=", "1", "-", "1">>, <<"bytes=", "1", "-">>}
    /\ rBody \in {<<1>>, <<1, 2>>}

\* C12: without a Range header the answer is 200 with Content-Length S,
\* Accept-Ranges bytes and the S bytes of the file as the body.
C12_NoRangeAnswers200 ==
    (rPc = "done" /\ rHdr = <<>>)
       => /\ rStatus = 200
          /\ rLen = rSize
          /\ rAccept = "bytes"
          /\ rRange = <<>>
          /\ rBody = FileBytes(0, rSize - 1)

\* A file of 3 bytes was sent whole.
C12_Witness ==
    rPc = "done" /\ rHdr = <<>> /\ rSize = 3 /\ rBody = <<0, 1, 2>>

\* A header of the form bytes=start-end or bytes=start- with decimal numbers.
WellFormedRange(h) ==
    /\ Len(h) >= 3 /\ h[1] = "bytes="
    /\ \E i \in 3..Len(h) :
          /\ h[i] = "-"
          /\ \A j \in 2..(i - 1) : h[j] \in Digits
          /\ \A j \in (i + 1)..Len(h) : h[j] \in Digits

\* C13: a Range header that is not of that form is answered like a request
\* without a Range header: 200 with the whole file and Content-Length S.
C13_MalformedRangeIgnored ==
    (rPc = "done" /\ rHdr # <<>> /\ ~WellFormedRange(rHdr))
       => /\ rStatus = 200
          /\ rLen = rSize
          /\ rBody = FileBytes(0, rSize - 1)

\* C14: a pass unlinks only files that are older than the maximum age, and
\* when it ends no file older than the maximum age (by the pass's `now`) is
\* left in the cache.
C14_SweepDeletesExactlyOld ==
    [][/\ (SweepUnlink /\ dir' # dir) => fage[sweepCur] - sweepLate > MaxAgeMs
       /\ (sweepPc # "idle" /\ sweepPc' = "idle") =>
             \A f \in VideoIds : dir[f] # NoIno => fage[f] - sweepLate <= MaxAgeMs]_vars

\* C16: a pass that follows a pass, with no file created or rewritten (and
\* no time passed) since the first of the two began, unlinks nothing.
C16_SecondPassRemovesNothing ==
    [][(SweepUnlink /\ dir' # dir) => sweepQuiet < 2]_vars

\* C15 as stated: the maximum age of the sweep is larger than the age limit
\* of a cache hit.
C15_MaxAgeAboveFreshness ==
    \A v \in VideoIds : dir[v] # NoIno => MaxAgeMs > FreshnessMs

\* C15 as amended: the two thresholds are the same hour; a file is a cache
\* hit below it and is unlinked by the sweep above it, so the one age at
\* which a file is neither is exactly one hour.
C15_SameThreshold ==
    \A v \in VideoIds :
        dir[v] # NoIno =>
           /\ ~(IsFresh(v) /\ SweepEligible(fage[v]))
           /\ (~IsFresh(v) /\ ~SweepEligible(fage[v])) <=> fage[v] = 3600000
           /\ SweepEligible(fage[v]) <=> fage[v] > 3600000

\* A file is exactly one hour old: no cache hit, and the sweep leaves it.
C15_Witness ==
    \E v \in VideoIds :
        dir[v] # NoIno /\ fage[v] = 3600000 /\ ~IsFresh(v) /\ ~SweepEligible(fage[v])

\* C17: when clearCache returns success it has unlinked as many files as it
\* reports (removedFiles), none of the files that were in the cache when it
\* read the directory is there any more, and on an empty cache it reports 0.
C17_ClearRemovesAll ==
    [][/\ (clearPc = "loop" /\ clearFiles = {} /\ clearPc' = "idle")
            => /\ clearDone = clearCount
               /\ \A i \in clearSeen : \A v \in VideoIds : dir'[v] # i
       /\ (ClearStart /\ \A v \in VideoIds : dir[v] = NoIno)
            => clearCount' = 0 /\ clearFiles' = {}]_vars

\* clearCache is about to return removedFiles = 2 after two unlinks.
C17_Witness ==
    /\ clearPc = "loop" /\ clearFiles = {}
    /\ clearCount = 2 /\ clearDone = 2
    /\ \A v \in VideoIds : dir[v] = NoIno

\* C18: when DELETE answers success the remote file is gone and the cache
\* holds no file of the identifier; a DELETE for a path whose owner is not
\* the caller is answered 403 and changes neither the remote file, nor the
\* cache, nor the catalog.
C18_DeleteRemovesRemoteAndCache ==
    [][/\ (dPc # "done" /\ dPc' = "done" /\ dStatus' = 200)
            => ~remote'[dVid] /\ dir'[dVid] = NoIno
       /\ (dPc' # "idle" /\ OwnerOf(PathOf(dVid')) # dLogin')
            => /\ remote' = remote /\ catalog' = catalog
               /\ (dPc' = "done" => dStatus' = 403)
               /\ (dPc = "local" => dir' = dir)]_vars

\* C19: when the transfer behind a request fails, or the file it should
\* serve cannot be read, the request is answered 404.
C19_UnreadableAnswers404 ==
    [][\A c \in Calls :
         (pc[c] # "done" /\ pc'[c] = "done" /\ status'[c] # 200) => status'[c] = 404]_vars

\* C20: the path a route decodes from the id the lister built for a path is
\* that path.
C20_IdRoundTrips ==
    cPc = "decoded" => cBack = cPath

\* "/aé€" went through: characters of two and three bytes, and a last group
\* that is padded.
C20_Witness ==
    /\ cPc = "decoded" /\ cPath = <<47, 97, 233, 8364>> /\ cBack = cPath
    /\ Len(Base64Decode(cId)) = 7 /\ cId[Len(cId)] = Pad

\* The request was sent upstream (it is neither passed on nor refused for
\* its type).
Forwarded == gPc \in {"first", "retry", "done"} /\ Len(gReqs) >= 1

\* The request is over and its last upstream request got no successful answer.
EndedUnsuccessful ==
    /\ gPc = "done" /\ Len(gReqs) >= 1
    /\ ~(Len(gAnswers) = Len(gReqs) /\ Ok(gAnswers[Len(gAnswers)]))

\* C21: a video file request whose first upstream answer is 401 or 403 is
\* retried once, for the same host, port and path, with the credentials in
\* the Authorization header and not in the URL; no request makes more than
\* two upstream requests; a retry without success ends in an error response.
C21_OneRetryWithoutUrlCredentials ==
    /\ Len(gReqs) <= 2
    /\ (Forwarded /\ IsVideoFile(gPath) /\ Len(gAnswers) >= 1 /\ gAnswers[1] \in {401, 403})
         => /\ Len(gReqs) = 2
            /\ gReqs[2].url = [gReqs[1].url EXCEPT !.cred = FALSE]
            /\ gReqs[1].url.cred /\ gReqs[2].auth
            /\ (EndedUnsuccessful => gStatus \in {404, 500})

\* A video file request was answered 401, its retry 403, and the caller 404.
C21_Witness ==
    /\ gPc = "done" /\ IsVideoFile(gPath) /\ gAnswers = <<401, 403>>
    /\ Len(gReqs) = 2 /\ gStatus = 404

\* C22: no error body holds a URL with the credentials of the media server.
C22_NoCredentialsInErrorBody ==
    (gPc = "done" /\ gStatus \in {404, 500})
        => ~gBody.wowzaUrl.cred /\ ~gBody.details.url.cred

\* C23: an error that follows a failed fetch is sent after a second attempt.
C23_OneFallbackWhenUnavailable ==
    (gPc = "done" /\ gStatus = 500) => Len(gReqs) = 2

\* C24: a manifest or segment is requested from port 1935 only, without
\* credentials, and sent with no-cache headers; a video file is requested
\* from port 6980 with basic authentication and sent with a one-hour cache
\* header; every other path is answered 404 and nothing is requested.
C24_ClassifiedByExtension ==
    gPc # "idle" =>
        /\ IsStreamFile(gPath) =>
             /\ Forwarded /\ gCache = NoCache
             /\ \A i \in 1..Len(gReqs) :
                  gReqs[i].url.port = StreamPort /\ ~gReqs[i].url.cred /\ ~gReqs[i].auth
        /\ IsVideoFile(gPath) =>
             /\ Forwarded /\ gCache = OneHour
             /\ \A i \in 1..Len(gReqs) : gReqs[i].url.port = ContentPort /\ gReqs[i].auth
        /\ (~IsStreamFile(gPath) /\ ~IsVideoFile(gPath)) =>
             gReqs = <<>> /\ gPc = "done" /\ gStatus = 404

\* C25: a last upstream answer that is no success is answered 404 with the
\* requested path, the URL that was requested (without credentials) and that
\* answer's status.
C25_NotFoundWithDiagnostics ==
    (gPc = "done" /\ Len(gAnswers) = Len(gReqs) /\ Len(gAnswers) >= 1
       /\ ~Ok(gAnswers[Len(gAnswers)]))
        => /\ gStatus = 404
           /\ gBody.requestPath = gPath
           /\ gBody.status = gAnswers[Len(gAnswers)]
           /\ gBody.wowzaUrl = [gReqs[Len(gReqs)].url EXCEPT !.cred = FALSE]

\* The lines of the output for which the loop builds a record.
FileLines == {i \in 1..Len(NonBlank(lOut.lines)) : IsFileLine(NonBlank(lOut.lines)[i])}

\* C26: a call of the lister ends without an exception, and with the empty
\* list when the scan was rejected, when find failed, and when the output
\* has no file line.
C26_ListNeverFails ==
    /\ ~lRaised
    /\ (lPc = "done" /\ (~lOut.ok \/ lOut.noVideos \/ FileLines = {})) => lRet = <<>>

\* A call whose scan was rejected returned the empty list.
C26_Witness ==
    lPc = "done" /\ ~lOut.ok /\ lRet = <<>> /\ ~lRaised

\* C27: once the loop has run, the list returned holds one record for each
\* file line, in order; each of them was probed; and the record of a line
\* whose probe failed has duration 0.
C27_ProbeFailureNotFatal ==
    (lPc = "done" /\ lIdx # 0) =>
        /\ Len(lRet) = Cardinality(FileLines)
        /\ {lRet[k].line : k \in 1..Len(lRet)} = FileLines
        /\ \A k \in 1..(Len(lRet) - 1) : lRet[k].line < lRet[k + 1].line
        /\ \A i \in FileLines : lProbes[i] # ""
        /\ \A k \in 1..Len(lRet) :
             lProbes[lRet[k].line] \in {"reject", "0", "N/A"} => lRet[k].duration = 0

\* Two files: the probe of the first was rejected, the second lasts 12 s.
C27_Witness ==
    /\ lPc = "done" /\ Len(lRet) = 2
    /\ lProbes[lRet[1].line] = "reject" /\ lRet[1].duration = 0
    /\ lProbes[lRet[2].line] = "12.7" /\ lRet[2].duration = 12

\* C28: when the probe of an available video fails, the response is a
\* success that carries the record with zeros and codec 'unknown'.
C28_InfoDefaultsWhenProbeFails ==
    (iPc = "done" /\ iFf \in {"reject", "NO_FFPROBE", "garbage"}) =>
        /\ iStatus = 200
        /\ ~iInfo.null
        /\ iInfo.name = BaseName(iPath) /\ iInfo.format = Format(iPath)
        /\ iInfo.duration = 0 /\ iInfo.width = 0 /\ iInfo.height = 0 /\ iInfo.bitrate = 0
        /\ iInfo.codec = "unknown"

\* All but the last element of a sequence.
Front(q) == SubSeq(q, 1, Len(q) - 1)

\* C29: after a successful rename the file is in the folder it was in, under
\* the trimmed new name followed by the extension it had; a catalog row with
\* the old path has the new path; and a failing catalog update still ends in
\* a success.
C29_RenameKeepsFolderAndExtension ==
    /\ (nPc = "done" /\ nStatus = 200) =>
         /\ Front(nFile) = Front(nPath)
         /\ nFile[Len(nFile)] = Trim(nName) \o ExtName(nPath[Len(nPath)])
         /\ (nUpd = "ok" /\ nRow # <<>>) => nRow = Join(nFile)
    /\ (nPc = "done" /\ nUpd = "failed") => nStatus = 200

\* C30: no call runs the queue check for an identifier while another call
\* for that identifier is between its own check and the registration of its
\* task.
C30_RegisteredBeforeSuspension ==
    [][\A c \in Calls : Arrives(c) =>
         \A d \in Calls \ {c} : ~(pc[d] = "stat" /\ vid[d] = vid'[c])]_vars

\* C31: the queue holds a task for an identifier exactly when a transfer for
\* that identifier is in flight, and the task it holds is such a transfer.
C31_RegistryIffInFlight ==
    \A v \in VideoIds :
        /\ HasTask(v) <=> InFlightFor(v) # {}
        /\ HasTask(v) => downloadQueue[v] \in InFlightFor(v)

\* C32: a call starts a transfer at most once: only out of the stat of its
\* own queue check, and never after a transfer of its own.
C32_NoRetryInCoordinator ==
    [][\A c \in Calls :
         (tr[c] # "conn" /\ tr'[c] = "conn") => (tr[c] = "none" /\ pc[c] = "stat")]_vars

\* A call whose transfer failed has been answered, and nothing is in flight.
C32_Witness ==
    \E c \in Calls :
        /\ tr[c] = "failed" /\ pc[c] = "done" /\ status[c] = 500
        /\ \A t \in Calls : ~InFlight(t)

\* C33: in the step in which a call gets a success from downloadVideoToTemp
\* (a cache hit, or the promise it awaits resolved), the local path names a
\* file, that file holds the whole remote content, and no transfer has it
\* open for writing.
C33_SuccessNamesCompleteFile ==
    [][\A c \in Calls :
         (pc[c] # "local" /\ pc'[c] = "local") =>
            /\ dir'[vid[c]] # NoIno
            /\ ichunks'[dir'[vid[c]]] = Chunks
            /\ \A t \in Calls : fd'[t] # dir'[vid[c]]]_vars

\* C34: while a response is piped from a complete cache file, the content of
\* that file does not change.
C34_PipedFileNotRewritten ==
    [][\A c \in Calls :
         (pc[c] = "piping" /\ pc'[c] = "piping" /\ Complete(rdIno[c])) =>
            ichunks'[rdIno[c]] = ichunks[rdIno[c]]]_vars

\* C35: the Content-Length of a stream response is the number of body bytes
\* the response sends, whatever the Range header of the request.
C35_ContentLengthIsBodyLength ==
    rPc = "done" => rLen = Len(rBody)

\* The login whose folder, directly under the content root, holds p.
InfoOwnerOf(p) == IF p[1] = "/alice/" THEN "alice" ELSE "bob"

\* C36: no identifier-based endpoint sends a remote command for a path that
\* is not under the caller's folder; here GET /info, whose remote commands
\* are those of checkVideoAvailability and getVideoInfo.
C36_InfoForeignPathNoRemoteIO ==
    (iPc \in {"avail", "probe"}) => InfoOwnerOf(iPath) = iLogin

\* C37: a request the middleware handles itself gets exactly one terminal
\* response, the piped upstream body or one JSON error with 404 or 500:
\* never two and never both, the second upstream attempt included.
C37_ExactlyOneResponse ==
    /\ Len(gSent) <= 1
    /\ gPc = "done" =>
          /\ Len(gSent) = 1
          /\ gSent[1] = "pipe" <=> gStatus = 200
          /\ gSent[1] = "json" <=> gStatus \in {404, 500}
    /\ gPc \in {"first", "retry", "next"} => gSent = <<>>

\* The handler ended after two upstream attempts, with a piped body.
C37_Witness ==
    gPc = "done" /\ Len(gReqs) = 2 /\ Len(gAnswers) = 2 /\ gSent = <<"pipe">>

\* C38: no upstream request made for a .m3u8 or .ts path carries the origin
\* credentials, neither as an Authorization header nor in its URL, on the
\* first attempt or on the second.
C38_StreamRequestsCarryNoCredentials ==
    (gPc # "idle" /\ IsStreamFile(gPath)) =>
        \A i \in 1..Len(gReqs) : ~gReqs[i].auth /\ ~gReqs[i].url.cred

\* A playlist request was answered 401 and tried a second time.
C38_Witness ==
    /\ gPc \in {"retry", "done"} /\ IsStreamFile(gPath)
    /\ Len(gReqs) = 2 /\ gAnswers # <<>> /\ gAnswers[1] \in {401, 403}

\* C39: a pass that ends leaves no file of its listing that was older than
\* the maximum age when the pass began and is still there, even when
\* another file of the listing has disappeared during the pass.
C39_VanishedFileDoesNotAbortPass ==
    [][(sweepPc # "idle" /\ sweepPc' = "idle") =>
          \A f \in sweepFiles :
              dir[f] # NoIno => ~SweepEligible(fage[f] - sweepLate)]_vars

\* C40: espaco_usado is never negative and never above the quota espaco.
C40_UsedWithinQuota ==
    qUsed >= 0 /\ qUsed <= Espaco

====
